---- MODULE Spec2Model ----
(***************************************************************************)
(* Model of the background-computation engine of MGPUsersGraph:            *)
(*   WorkerPool and BatchProcessor (src/src/useFilter.ts), the worker      *)
(*   message handler (src/src/worker.ts) and the App effects that drive    *)
(*   them (src/unnamed/part_002).                                          *)
(* JavaScript handlers run to completion on the single main thread, so     *)
(* every handler is one atomic action.  The units run in parallel and talk *)
(* to the main thread by messages only: a unit's inbox holds what          *)
(* postMessage sent to it, its outbox the events it queued for the main    *)
(* thread.                                                                 *)
(***************************************************************************)
EXTENDS Integers, Sequences, FiniteSets, TLC

VARIABLES
    workers,    \* WorkerPool.workers: sequence of [busy]; entry i talks to unit i
    taskQueue,  \* WorkerPool.taskQueue: sequence of Task
    taskMap,    \* WorkerPool.taskMap: task id -> Task
    promise,    \* the Promise addTask returned, per task id: [state, value]
    units,      \* the Worker objects: unit -> [inbox, outbox, the module-level caches]
    nextId,     \* serial standing for the fresh `${type}-${Date.now()}-${Math.random()}`
    uncaught,   \* handlers of the main thread that ended in an uncaught TypeError
    handlers,   \* promise id -> the caller's task id its then/catch closures hold
    raised,     \* history: ids of the tasks whose execution raised in a unit
    results,    \* BatchProcessor.results: a Map in insertion order, <<[taskId, result]>>
    pending,    \* BatchProcessor.pending: set of task ids
    callback,   \* BatchProcessor.callback: "null", or "onUpdate" once registered
    timer,      \* BatchProcessor.timer: TRUE while a timeout is outstanding
    callbackCount,    \* history: how many times the callback was invoked
    lastCallback,     \* history: the last invocation of the callback
    delivered,        \* history: ids of the tasks whose results went into a batch
    lateRegistration, \* history: registerTask was called after a task had settled
    cleared,          \* history: clear() was called
    app,        \* the App component's React state, a record of its useState values
    changes,    \* how many times the user changed the search term or a tag
    probe       \* the engine called directly: the request made and what it gave

poolVars == <<workers, taskQueue, taskMap, promise, units, nextId, uncaught>>

bpVars == <<results, pending, callback, timer, callbackCount, lastCallback, delivered,
            lateRegistration, cleared>>

callerVars == <<handlers, raised>>

appVars == <<app, changes>>

probeVars == <<probe>>

vars == <<poolVars, bpVars, callerVars, appVars, probeVars>>

-----------------------------------------------------------------------------
(* Bounds of the model *)

\* Number of addTask calls explored.
MaxTasks == 4

\* Number of registerTask calls explored on a BatchProcessor driven directly.
MaxRegistered == 3

\* The poolSize arguments and the values of navigator.hardwareConcurrency
\* explored (0: undefined).
RequestedSizes == {1, 2, 3}
Concurrencies == {0, 2, 3}

-----------------------------------------------------------------------------
(* Program constants *)

\* Math.max(2, ...) in the WorkerPool constructor.
MinUnits == 2

\* navigator.hardwareConcurrency || 4, and the default poolSize.
DefaultConcurrency == 4

TaskTypes == {"filter", "textCache", "nodeSize", "forceParams"}

\* The priorities the callers pass: filter 10, forceParams 20, textCache/nodeSize 50.
Priorities == {10, 20, 50}

\* JavaScript's undefined
Undefined == [undefined |-> TRUE]

Max(a, b) == IF a >= b THEN a ELSE b
Min(a, b) == IF a <= b THEN a ELSE b

\* obj.field of a message whose field may be absent
Field(r, f) == IF f \in DOMAIN r THEN r[f] ELSE Undefined

-----------------------------------------------------------------------------
(* Strings are sequences of characters; ids and names are strings. *)

\* JavaScript's null where a string is expected: no string equals it, its
\* one element is not a character.
Null == <<"null">>

IsSpace(c) == c = " "

\* String.prototype.trim
RECURSIVE TrimStart(_)
TrimStart(s) == IF s # <<>> /\ IsSpace(Head(s)) THEN TrimStart(Tail(s)) ELSE s

RECURSIVE TrimEnd(_)
TrimEnd(s) ==
    IF s # <<>> /\ IsSpace(s[Len(s)]) THEN TrimEnd(SubSeq(s, 1, Len(s) - 1)) ELSE s

Trim(s) == TrimEnd(TrimStart(s))

Range(s) == {s[i] : i \in 1..Len(s)}

\* Set.prototype.add on a Set kept in insertion order
SetAdd(s, e) == IF e \in Range(s) THEN s ELSE Append(s, e)

RECURSIVE SetAddAll(_, _)
SetAddAll(s, es) == IF es = <<>> THEN s ELSE SetAddAll(SetAdd(s, Head(es)), Tail(es))

-----------------------------------------------------------------------------
(* FilterEngine, src/src/worker.ts *)

\* nodes.find(node => node.name === term): index of the first match, 0 if none
FindByName(nodes, term) ==
    IF \E i \in 1..Len(nodes) : nodes[i].name = term
    THEN CHOOSE i \in 1..Len(nodes) :
            /\ nodes[i].name = term
            /\ \A j \in 1..(i - 1) : nodes[j].name # term
    ELSE 0

\* Mutant of AddNeighbours: only the links that leave the node are followed.
RECURSIVE AddNeighbours_OutgoingOnly(_, _, _)
AddNeighbours_OutgoingOnly(acc, links, id) ==
    IF links = <<>> THEN acc
    ELSE AddNeighbours_OutgoingOnly(
             IF Head(links).source = id THEN SetAdd(acc, Head(links).target) ELSE acc,
             Tail(links), id)

\* linkMap.get(matchedNode.id)?.forEach(link => resultNodeIds.add(other end))
RECURSIVE AddNeighbours(_, _, _)
AddNeighbours(acc, links, id) ==
    IF links = <<>> THEN acc
    ELSE LET link == Head(links)
             acc1 == IF link.source = id THEN SetAdd(acc, link.target)
                     ELSE IF link.target = id THEN SetAdd(acc, link.source)
                     ELSE acc
         IN  AddNeighbours(acc1, Tail(links), id)

\* sanitizedTags.forEach(tag => (tagIndexCache[tag] || []).forEach(add))
RECURSIVE TagUnion(_, _, _)
TagUnion(acc, tags, tagIndexCache) ==
    IF tags = <<>> THEN acc
    ELSE TagUnion(SetAddAll(acc, tagIndexCache[Head(tags)]), Tail(tags), tagIndexCache)

\* Mutant of LinkIds: a link is kept when either end is in the result.
RECURSIVE LinkIds_EitherEnd(_, _)
LinkIds_EitherEnd(links, ids) ==
    IF links = <<>> THEN <<>>
    ELSE (IF Head(links).source \in ids \/ Head(links).target \in ids
          THEN <<Head(links).source \o <<"|">> \o Head(links).target>>
          ELSE <<>>) \o LinkIds_EitherEnd(Tail(links), ids)

\* `${link.source}|${link.target}` for every link with both ends in the result
RECURSIVE LinkIds(_, _)
LinkIds(links, ids) ==
    IF links = <<>> THEN <<>>
    ELSE LET link == Head(links)
         IN  (IF link.source \in ids /\ link.target \in ids
              THEN <<link.source \o <<"|">> \o link.target>>
              ELSE <<>>) \o LinkIds(Tail(links), ids)

\* Properties every plain object inherits from Object.prototype (some of them)
ObjectPrototypeKeys == {"constructor", "toString", "__proto__"}

\* `key in obj` on a plain object: own and inherited properties
In(key, obj) == key \in DOMAIN obj \/ key \in ObjectPrototypeKeys

\* What a call gives when it throws
Thrown == [threw |-> "TypeError"]

\* tagIndexCache[tag] of an inherited property is a function or an object, not
\* an array: it is truthy, so `|| []` keeps it, and nodeIds.forEach is not a
\* function.
processFilter(nodes, links, searchTerm, selectedTags, tagIndexCache) ==
    LET sanitizedSearchTerm == Trim(searchTerm)
        sanitizedTags == SelectSeq(selectedTags, LAMBDA tag : In(tag, tagIndexCache))
        m == FindByName(nodes, sanitizedSearchTerm)
        searchedNodeIdResult ==
            IF sanitizedSearchTerm # <<>> /\ m # 0 THEN nodes[m].id ELSE Null
        afterSearch ==
            IF sanitizedSearchTerm # <<>> /\ m # 0
            THEN AddNeighbours(<<nodes[m].id>>, links, nodes[m].id)
            ELSE <<>>
        tagFilteredNodeIds == TagUnion(<<>>, sanitizedTags, tagIndexCache)
        resultNodeIds ==
            IF sanitizedTags = <<>> THEN afterSearch
            ELSE IF sanitizedSearchTerm # <<>>
            THEN SelectSeq(afterSearch,
                     LAMBDA id : id \in Range(tagFilteredNodeIds)
                                 \/ id = searchedNodeIdResult)
            ELSE tagFilteredNodeIds
    IN  IF sanitizedSearchTerm # <<>> /\ m = 0
        THEN [filteredNodeIds |-> <<>>, filteredLinkIds |-> <<>>,
              searchedNodeId |-> Null]
        ELSE IF \E i \in 1..Len(sanitizedTags) :
                    sanitizedTags[i] \notin DOMAIN tagIndexCache
        THEN Thrown
        ELSE [filteredNodeIds |-> resultNodeIds,
              filteredLinkIds |-> LinkIds(links, Range(resultNodeIds)),
              searchedNodeId |-> searchedNodeIdResult]

\* A JavaScript number that is sqrt(radicand) * factor / divisor, or Infinity,
\* or the plain rational num / den: kept symbolic, the model has no reals.
Infinity == [infinity |-> TRUE]

RECURSIVE GCD(_, _)
GCD(a, b) == IF b = 0 THEN a ELSE GCD(b, a % b)

\* the rational n / d in lowest terms (d > 0)
Rat(n, d) == LET g == GCD(n, d) IN [num |-> n \div g, den |-> d \div g]

\* currentLine.length counts UTF-16 code units: a character outside the basic
\* plane counts two.
AstralChars == {"U+1F600"}
CodeUnits(c) == IF c \in AstralChars THEN 2 ELSE 1

\* if (currentLine.length >= 25)
CharLimit == 25

\* Mutant of WrapLines: a line is closed only when it is longer than the limit.
RECURSIVE WrapLines_PastLimit(_, _, _, _)
WrapLines_PastLimit(chars, currentLine, currentLength, lines) ==
    IF chars = <<>>
    THEN IF currentLine # <<>> THEN Append(lines, currentLine) ELSE lines
    ELSE IF currentLength + CodeUnits(Head(chars)) > CharLimit
         THEN WrapLines_PastLimit(Tail(chars), <<>>, 0,
                                  Append(lines, Append(currentLine, Head(chars))))
         ELSE WrapLines_PastLimit(Tail(chars), Append(currentLine, Head(chars)),
                                  currentLength + CodeUnits(Head(chars)), lines)

\* for (const char of node.name) { currentLine += char; if (length >= 25) push }
RECURSIVE WrapLines(_, _, _, _)
WrapLines(chars, currentLine, currentLength, lines) ==
    IF chars = <<>>
    THEN IF currentLine # <<>> THEN Append(lines, currentLine) ELSE lines
    ELSE LET line == Append(currentLine, Head(chars))
             length == currentLength + CodeUnits(Head(chars))
         IN  IF length >= CharLimit
             THEN WrapLines(Tail(chars), <<>>, 0, Append(lines, line))
             ELSE WrapLines(Tail(chars), line, length, lines)

\* index of the last node carrying this id: cache[node.id] is overwritten in order
LastWithId(nodes, id) ==
    CHOOSE i \in 1..Len(nodes) :
        nodes[i].id = id /\ \A j \in (i + 1)..Len(nodes) : nodes[j].id # id

buildTextLineCache(nodes) ==
    [id \in {nodes[i].id : i \in 1..Len(nodes)} |->
        WrapLines(nodes[LastWithId(nodes, id)].name, <<>>, 0, <<>>)]

\* Mutant of buildNodeSizeCache: a node without links gets radius 0.
buildNodeSizeCache_NoFloor(nodes, nodeSizeMultiplier) ==
    [id \in {nodes[i].id : i \in 1..Len(nodes)} |->
        LET node == nodes[CHOOSE i \in 1..Len(nodes) :
                        nodes[i].id = id /\ \A j \in (i + 1)..Len(nodes) : nodes[j].id # id]
        IN  [sqrt |-> node.incomingCount + node.outgoingCount,
             times |-> nodeSizeMultiplier]]

\* Math.sqrt(node.incomingCount + node.outgoingCount || 1) * nodeSizeMultiplier
buildNodeSizeCache(nodes, nodeSizeMultiplier) ==
    [id \in {nodes[i].id : i \in 1..Len(nodes)} |->
        LET node == nodes[LastWithId(nodes, id)]
            sum == node.incomingCount + node.outgoingCount
        IN  [sqrt |-> IF sum = 0 THEN 1 ELSE sum, times |-> nodeSizeMultiplier]]

\* Mutant of calculateForceParams: the strength falls as the isolated share grows.
calculateForceParams_Decreasing(filteredNodes, filteredLinks, base, canvasWidth, canvasHeight) ==
    LET isolated == {i \in 1..Len(filteredNodes) :
                        ~\E k \in 1..Len(filteredLinks) :
                            \/ filteredLinks[k].source = filteredNodes[i].id
                            \/ filteredLinks[k].target = filteredNodes[i].id}
        enhanced == Rat(base.num * (22 * Len(filteredNodes) - 12 * Cardinality(isolated)),
                        base.den * 10 * Len(filteredNodes))
    IN  IF isolated = {}
        THEN [distanceMax |-> Infinity, centerStrength |-> base]
        ELSE [distanceMax |-> [sqrt |-> canvasWidth * canvasWidth
                                        + canvasHeight * canvasHeight,
                               over |-> 6],
              centerStrength |-> IF enhanced.num <= 3 * enhanced.den
                                 THEN enhanced ELSE Rat(3, 1)]

\* Mutant of calculateForceParams: the strength is not capped at 3.
calculateForceParams_NoCap(filteredNodes, filteredLinks, base, canvasWidth, canvasHeight) ==
    LET isolated == {i \in 1..Len(filteredNodes) :
                        ~\E k \in 1..Len(filteredLinks) :
                            \/ filteredLinks[k].source = filteredNodes[i].id
                            \/ filteredLinks[k].target = filteredNodes[i].id}
    IN  IF isolated = {}
        THEN [distanceMax |-> Infinity, centerStrength |-> base]
        ELSE [distanceMax |-> [sqrt |-> canvasWidth * canvasWidth
                                        + canvasHeight * canvasHeight,
                               over |-> 6],
              centerStrength |->
                  Rat(base.num * (10 * Len(filteredNodes) + 12 * Cardinality(isolated)),
                      base.den * 10 * Len(filteredNodes))]

\* Mutant of calculateForceParams: no early return, the ratio is always
\* computed (0 / 0 is kept as the fraction with denominator 0).
calculateForceParams_NoEarlyReturn(filteredNodes, filteredLinks, base, canvasWidth, canvasHeight) ==
    LET isolated == {i \in 1..Len(filteredNodes) :
                        ~\E k \in 1..Len(filteredLinks) :
                            \/ filteredLinks[k].source = filteredNodes[i].id
                            \/ filteredLinks[k].target = filteredNodes[i].id}
        up == base.num * (10 * Len(filteredNodes) + 12 * Cardinality(isolated))
        down == base.den * 10 * Len(filteredNodes)
        enhanced == IF down = 0 THEN [num |-> up, den |-> 0] ELSE Rat(up, down)
    IN  [distanceMax |-> [sqrt |-> canvasWidth * canvasWidth
                                    + canvasHeight * canvasHeight,
                          over |-> 6],
         centerStrength |-> IF enhanced.num <= 3 * enhanced.den
                            THEN enhanced ELSE Rat(3, 1)]

\* baseConfig.centerStrength is the rational `base`; canvas sizes are integers.
calculateForceParams(filteredNodes, filteredLinks, base, canvasWidth, canvasHeight) ==
    LET isolatedNodes ==
            SelectSeq(filteredNodes, LAMBDA node :
                ~\E k \in 1..Len(filteredLinks) :
                    filteredLinks[k].source = node.id \/ filteredLinks[k].target = node.id)
        \* base * (1 + isolated / total * 1.2)
        enhanced == Rat(base.num * (10 * Len(filteredNodes) + 12 * Len(isolatedNodes)),
                        base.den * 10 * Len(filteredNodes))
    IN  IF Len(isolatedNodes) = 0
        THEN [distanceMax |-> Infinity, centerStrength |-> base]
        ELSE [distanceMax |-> [sqrt |-> canvasWidth * canvasWidth
                                        + canvasHeight * canvasHeight,
                               over |-> 6],
              centerStrength |-> IF enhanced.num <= 3 * enhanced.den
                                 THEN enhanced ELSE Rat(3, 1)]

\* The module-level caches of one unit (worker.ts 94-99), null at start.
NoCache == [null |-> TRUE]

NewUnit ==
    [inbox |-> <<>>, outbox |-> <<>>,
     cachedAllNodesFilterResult |-> NoCache,
     cachedTextLineCache |-> NoCache,
     cachedNodeSizeCache |-> NoCache,
     cachedForceParams |-> NoCache,
     lastFilteredNodeCount |-> -1]

\* The try block of self.onmessage: the unit's caches after the message and
\* the result it posts.
onmessage(u, message) ==
    LET d == message.data
    IN  CASE message.type = "filter" ->
               IF Trim(d.searchTerm) = <<>> /\ Len(d.selectedTags) = 0
               THEN IF u.cachedAllNodesFilterResult # NoCache
                    THEN [unit |-> u, result |-> u.cachedAllNodesFilterResult]
                    ELSE LET result == processFilter(d.nodes, d.links, d.searchTerm,
                                           d.selectedTags, d.tagIndexCache)
                         IN  [unit |-> [u EXCEPT !.cachedAllNodesFilterResult = result],
                              result |-> result]
               ELSE [unit |-> u,
                     result |-> processFilter(d.nodes, d.links, d.searchTerm,
                                    d.selectedTags, d.tagIndexCache)]
          [] message.type = "textCache" ->
               IF u.cachedTextLineCache # NoCache
               THEN [unit |-> u, result |-> [textLineCache |-> u.cachedTextLineCache]]
               ELSE LET c == buildTextLineCache(d.nodes)
                    IN  [unit |-> [u EXCEPT !.cachedTextLineCache = c],
                         result |-> [textLineCache |-> c]]
          [] message.type = "nodeSize" ->
               IF u.cachedNodeSizeCache # NoCache
               THEN [unit |-> u, result |-> [nodeSizeCache |-> u.cachedNodeSizeCache]]
               ELSE LET c == buildNodeSizeCache(d.nodes, d.nodeSizeMultiplier)
                    IN  [unit |-> [u EXCEPT !.cachedNodeSizeCache = c],
                         result |-> [nodeSizeCache |-> c]]
          [] message.type = "forceParams" ->
               LET currentNodeCount == Len(d.filteredNodes)
               IN  IF currentNodeCount = u.lastFilteredNodeCount
                      /\ u.cachedForceParams # NoCache
                   THEN [unit |-> u, result |-> u.cachedForceParams]
                   ELSE LET result == calculateForceParams(d.filteredNodes,
                                          d.filteredLinks, d.baseConfig.centerStrength,
                                          d.canvasWidth, d.canvasHeight)
                        IN  [unit |-> [u EXCEPT !.cachedForceParams = result,
                                                !.lastFilteredNodeCount = currentNodeCount],
                             result |-> result]

\* What running the handler on the first message of its inbox does to a unit.
\* outcome "result": the try block ends and posts {taskId, result};
\* outcome "caught": it throws, the catch block posts {taskId, error};
\* outcome "uncaught": the handler dies, an error event goes to worker.onerror.
RunUnit(u, outcome) ==
    LET message == Head(u.inbox)
        u1 == [u EXCEPT !.inbox = Tail(@)]
        done == onmessage(u1, message)
    IN  CASE outcome = "result" /\ done.result # Thrown ->
               [done.unit EXCEPT !.outbox =
                   Append(@, [kind |-> "message",
                              data |-> [taskId |-> message.taskId,
                                        result |-> done.result]])]
          [] outcome = "result" /\ done.result = Thrown ->
               [u1 EXCEPT !.outbox =
                   Append(@, [kind |-> "message",
                              data |-> [taskId |-> message.taskId,
                                        error |-> done.result.threw]])]
          [] outcome = "caught" ->
               [u1 EXCEPT !.outbox =
                   Append(@, [kind |-> "message",
                              data |-> [taskId |-> message.taskId,
                                        error |-> "Unknown error"]])]
          [] outcome = "uncaught" ->
               [u1 EXCEPT !.outbox = Append(@, [kind |-> "error"])]

Outcomes == {"result", "caught", "uncaught"}

-----------------------------------------------------------------------------
(* WorkerPool, src/src/useFilter.ts 146-209 *)

\* Mutant of PoolSize: no lower limit.
PoolSize_NoFloor(poolSize, hardwareConcurrency) ==
    Min(poolSize, IF hardwareConcurrency = 0 THEN DefaultConcurrency ELSE hardwareConcurrency)

\* const size = Math.max(2, Math.min(poolSize, navigator.hardwareConcurrency || 4))
PoolSize(poolSize, hardwareConcurrency) ==
    Max(MinUnits, Min(poolSize,
        IF hardwareConcurrency = 0 THEN DefaultConcurrency ELSE hardwareConcurrency))

\* The state of one pool as a record, so that a handler can call several methods.
Pool == [workers |-> workers, taskQueue |-> taskQueue, taskMap |-> taskMap,
         promise |-> promise, units |-> units, nextId |-> nextId,
         uncaught |-> uncaught]

SetPool(p) ==
    /\ workers' = p.workers
    /\ taskQueue' = p.taskQueue
    /\ taskMap' = p.taskMap
    /\ promise' = p.promise
    /\ units' = p.units
    /\ nextId' = p.nextId
    /\ uncaught' = p.uncaught

\* new WorkerPool(poolSize): `size` units, none busy, nothing queued.
NewPool(size) ==
    [workers |-> [i \in 1..size |-> [busy |-> FALSE]],
     taskQueue |-> <<>>,
     taskMap |-> <<>>,
     promise |-> <<>>,
     units |-> [i \in 1..size |-> NewUnit],
     nextId |-> 1,
     uncaught |-> {}]

\* Mutant of InsertByPriority: a task goes in front of the queued tasks of its
\* own priority.
RECURSIVE InsertByPriority_Unstable(_, _)
InsertByPriority_Unstable(q, t) ==
    IF q = <<>> THEN <<t>>
    ELSE IF Head(q).priority < t.priority
         THEN <<Head(q)>> \o InsertByPriority_Unstable(Tail(q), t)
         ELSE <<t>> \o q

\* Array.prototype.sort((a, b) => a.priority - b.priority): a stable sort.
RECURSIVE InsertByPriority(_, _)
InsertByPriority(q, t) ==
    IF q = <<>> THEN <<t>>
    ELSE IF Head(q).priority <= t.priority
         THEN <<Head(q)>> \o InsertByPriority(Tail(q), t)
         ELSE <<t>> \o q

\* Mutant of SortByPriority: the queue is left in submission order.
SortByPriority_Unsorted(q) == q

RECURSIVE SortByPriority(_)
SortByPriority(q) ==
    IF q = <<>> THEN <<>>
    ELSE InsertByPriority(SortByPriority(SubSeq(q, 1, Len(q) - 1)), q[Len(q)])

\* Mutant of FindIdle: the first entry is taken, busy or not.
FindIdle_IgnoresBusy(ws) == IF Len(ws) > 0 THEN 1 ELSE 0

\* this.workers.find(w => !w.busy): the first idle entry, 0 when there is none.
FindIdle(ws) ==
    IF \E i \in 1..Len(ws) : ~ws[i].busy
    THEN CHOOSE i \in 1..Len(ws) : ~ws[i].busy /\ \A j \in 1..(i - 1) : ws[j].busy
    ELSE 0

\* w.worker.postMessage({taskId, type, ...data})
PostMessage(us, w, task) ==
    [us EXCEPT ![w].inbox =
        Append(@, [taskId |-> task.id, type |-> task.type, data |-> task.data])]

processNextTask(p) ==
    LET sorted == SortByPriority(p.taskQueue)
        w == FindIdle(p.workers)
    IN  IF sorted = <<>> THEN [p EXCEPT !.taskQueue = sorted]
        ELSE IF w = 0 THEN [p EXCEPT !.taskQueue = sorted]
        ELSE [p EXCEPT !.taskQueue = Tail(sorted),
                       !.workers[w].busy = TRUE,
                       !.units = PostMessage(p.units, w, Head(sorted))]

\* m with key k set to v / with key k deleted (Map.set, Map.delete)
MapSet(m, k, v) == [x \in DOMAIN m \cup {k} |-> IF x = k THEN v ELSE m[x]]
MapDelete(m, k) == [x \in DOMAIN m \ {k} |-> m[x]]

addTask(p, type, data, priority) ==
    LET taskId == p.nextId
        task == [id |-> taskId, type |-> type, priority |-> priority, data |-> data]
    IN  processNextTask(
            [p EXCEPT !.nextId = taskId + 1,
                      !.promise = MapSet(@, taskId, [state |-> "pending"]),
                      !.taskMap = MapSet(@, taskId, task),
                      !.taskQueue = Append(@, task)])

\* Mutant of handleMessage: the unit is marked idle and the queue is not looked at.
handleMessage_NoDispatch(p, data, idx) ==
    LET taskId == data.taskId
        p1 == IF taskId \in DOMAIN p.taskMap
              THEN [p EXCEPT !.promise[taskId] =
                                  [state |-> "fulfilled",
                                   value |-> Field(data, "result")],
                             !.taskMap = MapDelete(@, taskId)]
              ELSE p
    IN  IF idx \in 1..Len(p1.workers)
        THEN [p1 EXCEPT !.workers[idx].busy = FALSE]
        ELSE [p1 EXCEPT !.uncaught = @ \cup {"handleMessage"}]

\* worker.onmessage = event => this.handleMessage(event, i).  this.workers[idx]
\* is undefined once terminate() has emptied the array: the assignment throws.
handleMessage(p, data, idx) ==
    LET taskId == data.taskId
        result == Field(data, "result")
        p1 == IF taskId \in DOMAIN p.taskMap
              THEN [p EXCEPT !.promise[taskId] =
                                  IF @.state = "pending"
                                  THEN [state |-> "fulfilled", value |-> result]
                                  ELSE @,
                             !.taskMap = MapDelete(@, taskId)]
              ELSE p
    IN  IF idx \in 1..Len(p1.workers)
        THEN processNextTask([p1 EXCEPT !.workers[idx].busy = FALSE])
        ELSE [p1 EXCEPT !.uncaught = @ \cup {"handleMessage"}]

\* worker.onerror = () => { this.workers[i].busy = false; this.processNextTask(); }
onerror(p, i) ==
    IF i \in 1..Len(p.workers)
    THEN processNextTask([p EXCEPT !.workers[i].busy = FALSE])
    ELSE [p EXCEPT !.uncaught = @ \cup {"onerror"}]

\* Mutant of terminate: the queue is kept.
terminate_KeepsQueue(p) ==
    [p EXCEPT !.taskMap = <<>>,
              !.units = [i \in DOMAIN p.units |-> [@[i] EXCEPT !.inbox = <<>>]],
              !.workers = <<>>]

\* terminate(): the queue and the map are dropped, the units are killed (a
\* killed unit runs nothing more; what it had already queued for the main
\* thread stays queued).
terminate(p) ==
    [p EXCEPT !.taskQueue = <<>>,
              !.taskMap = <<>>,
              !.units = [i \in DOMAIN p.units |-> [@[i] EXCEPT !.inbox = <<>>]],
              !.workers = <<>>]


-----------------------------------------------------------------------------
(* BatchProcessor, src/src/useFilter.ts 211-276 *)

\* The caller's task ids are `${type}-${Date.now()}-${Math.random()}`: a type
\* prefix and a fresh rest.  taskId.startsWith("filter-") reads the prefix.
TaskId(type, n) == [type |-> type, n |-> n]
StartsWith(taskId, type) == taskId.type = type

Batcher == [results |-> results, pending |-> pending, callback |-> callback,
            timer |-> timer]

\* new BatchProcessor(50)
NewBatcher == [results |-> <<>>, pending |-> {}, callback |-> "null", timer |-> FALSE]

\* Map.prototype.set: a key already present keeps its place
ResultsSet(rs, taskId, result) ==
    IF \E i \in 1..Len(rs) : rs[i].taskId = taskId
    THEN [i \in 1..Len(rs) |->
            IF rs[i].taskId = taskId THEN [taskId |-> taskId, result |-> result]
            ELSE rs[i]]
    ELSE Append(rs, [taskId |-> taskId, result |-> result])

scheduleUpdate(b) == IF b.timer THEN b ELSE [b EXCEPT !.timer = TRUE]

registerTask(b, taskId) == [b EXCEPT !.pending = @ \cup {taskId}]

\* Mutant of addResult: the update is scheduled at every result.
addResult_AlwaysSchedules(b, taskId, result) ==
    scheduleUpdate([b EXCEPT !.results = ResultsSet(@, taskId, result),
                             !.pending = @ \ {taskId}])

addResult(b, taskId, result) ==
    LET b1 == [b EXCEPT !.results = ResultsSet(@, taskId, result),
                        !.pending = @ \ {taskId}]
    IN  IF b1.pending = {} THEN scheduleUpdate(b1) ELSE b1

failTask(b, taskId) ==
    LET b1 == [b EXCEPT !.pending = @ \ {taskId}]
    IN  IF b1.pending = {} THEN scheduleUpdate(b1) ELSE b1

onUpdate(b) == [b EXCEPT !.callback = "onUpdate"]

\* One step of results.forEach in executeUpdate: the batch with this entry
\* merged.  Destructuring, or reading a property of, an undefined result throws.
MergeThrows(entry) ==
    /\ entry.result = Undefined
    /\ \/ StartsWith(entry.taskId, "filter")
       \/ StartsWith(entry.taskId, "textCache")
       \/ StartsWith(entry.taskId, "nodeSize")

MergeEntry(batch, entry) ==
    LET r == entry.result
    IN  CASE StartsWith(entry.taskId, "filter") ->
               MapSet(MapSet(MapSet(batch,
                   "filteredNodeIds", Range(r.filteredNodeIds)),
                   "filteredLinkIds", r.filteredLinkIds),
                   "searchedNodeId", r.searchedNodeId)
          [] StartsWith(entry.taskId, "textCache") ->
               MapSet(batch, "textLineCache", r.textLineCache)
          [] StartsWith(entry.taskId, "nodeSize") ->
               MapSet(batch, "nodeSizeCache", r.nodeSizeCache)
          [] StartsWith(entry.taskId, "forceParams") ->
               MapSet(batch, "forceParams", r)
          [] OTHER -> batch

RECURSIVE MergeResults(_, _)
MergeResults(rs, batch) ==
    IF rs = <<>> THEN [threw |-> FALSE, batch |-> batch]
    ELSE IF MergeThrows(Head(rs)) THEN [threw |-> TRUE, batch |-> batch]
    ELSE MergeResults(Tail(rs), MergeEntry(batch, Head(rs)))

\* Mutant of executeUpdate: the stored results are kept after the callback.
executeUpdate_KeepsResults(b) ==
    LET b1 == [b EXCEPT !.timer = FALSE]
        merged == MergeResults(b.results, <<>>)
    IN  IF b.results = <<>> \/ b.callback = "null"
        THEN [bp |-> b1, invoked |-> FALSE, threw |-> FALSE]
        ELSE IF merged.threw
        THEN [bp |-> b1, invoked |-> FALSE, threw |-> TRUE]
        ELSE [bp |-> b1, invoked |-> TRUE, threw |-> FALSE, batch |-> merged.batch]

\* Mutant of executeUpdate: this.timer is not reset.
executeUpdate_KeepsTimer(b) ==
    LET merged == MergeResults(b.results, <<>>)
    IN  IF b.results = <<>> \/ b.callback = "null"
        THEN [bp |-> b, invoked |-> FALSE, threw |-> FALSE]
        ELSE IF merged.threw
        THEN [bp |-> b, invoked |-> FALSE, threw |-> TRUE]
        ELSE [bp |-> [b EXCEPT !.results = <<>>], invoked |-> TRUE,
              threw |-> FALSE, batch |-> merged.batch]

\* The timeout's handler.  Gives the processor afterwards, whether the callback
\* was invoked and with which batch, and whether the handler threw.
executeUpdate(b) ==
    LET b1 == [b EXCEPT !.timer = FALSE]
        merged == MergeResults(b.results, <<>>)
    IN  IF b.results = <<>> \/ b.callback = "null"
        THEN [bp |-> b1, invoked |-> FALSE, threw |-> FALSE]
        ELSE IF merged.threw
        THEN [bp |-> b1, invoked |-> FALSE, threw |-> TRUE]
        ELSE [bp |-> [b1 EXCEPT !.results = <<>>], invoked |-> TRUE,
              threw |-> FALSE, batch |-> merged.batch]

\* Mutant of clear: the stored results are kept.
clear_KeepsResults(b) == [b EXCEPT !.timer = FALSE, !.pending = {}]

clear(b) == [b EXCEPT !.timer = FALSE, !.results = <<>>, !.pending = {}]

SetBatcher(b) ==
    /\ results' = b.results
    /\ pending' = b.pending
    /\ callback' = b.callback
    /\ timer' = b.timer

\* History: what one invocation of the callback was given, the task ids whose
\* results were merged into it (in merge order) and the ids still pending then.
Invocation(b, batch) ==
    [batch |-> batch,
     merged |-> [i \in 1..Len(b.results) |-> b.results[i].taskId],
     pending |-> b.pending]

\* The history after executeUpdate gave r on processor b.
Invoked(r, b) ==
    IF r.invoked
    THEN /\ callbackCount' = callbackCount + 1
         /\ lastCallback' = Invocation(b, r.batch)
         /\ delivered' = delivered \cup {b.results[i].taskId : i \in 1..Len(b.results)}
    ELSE UNCHANGED <<callbackCount, lastCallback, delivered>>


-----------------------------------------------------------------------------
(* The graph the model runs on, and its decoding (src/unnamed/part_002 338-363) *)

\* graph.json: nodes A (tag sysop, palette 1), B, C (tag bot); links A-B, B-C
SampleGraph ==
    [d |-> << [n |-> <<"A">>, t |-> <<"sysop">>, e |-> 1],
              [n |-> <<"B">>],
              [n |-> <<"C">>, t |-> <<"bot">>] >>,
     l |-> << <<0, 1>>, <<1, 2>> >>]

\* CONFIG (src/unnamed/part_003 37-81), the fields the engine reads
SampleConfig ==
    [e |-> <<"#default", "#sysop">>,
     forces |-> [centerStrength |-> Rat(1, 1)],
     nodeSizeMultiplier |-> "0.247941080729167"]

\* window.innerWidth * 0.9 and window.innerHeight * 0.9
SampleCanvas == [width |-> 900, height |-> 600]

\* compressed.d.map(node => ({id: node.n, name: node.n, tags: node.t || [], ...}))
DecodeNodes(compressed, config) ==
    [i \in 1..Len(compressed.d) |->
        LET node == compressed.d[i]
        IN  [id |-> node.n, name |-> node.n,
             tags |-> IF "t" \in DOMAIN node THEN node.t ELSE <<>>,
             color |-> config.e[(IF "e" \in DOMAIN node THEN node.e ELSE 0) + 1],
             incomingCount |-> 0, outgoingCount |-> 0]]

\* compressed.l.map(link => ({source: nodeArray[link[0]].id, target: nodeArray[link[1]].id}))
DecodeLinks(compressed, nodeArray) ==
    [k \in 1..Len(compressed.l) |->
        [source |-> nodeArray[compressed.l[k][1] + 1].id,
         target |-> nodeArray[compressed.l[k][2] + 1].id]]

\* decompressedLinks.forEach: the first node with the link's source id gets
\* incomingCount++, the first with its target id gets outgoingCount++
FirstWithId(nodeArray, id) ==
    CHOOSE i \in 1..Len(nodeArray) :
        nodeArray[i].id = id /\ \A j \in 1..(i - 1) : nodeArray[j].id # id

CountLinks(nodeArray, decompressedLinks) ==
    [i \in 1..Len(nodeArray) |->
        [nodeArray[i] EXCEPT
            !.incomingCount = Cardinality({k \in 1..Len(decompressedLinks) :
                FirstWithId(nodeArray, decompressedLinks[k].source) = i}),
            !.outgoingCount = Cardinality({k \in 1..Len(decompressedLinks) :
                FirstWithId(nodeArray, decompressedLinks[k].target) = i})]]

SampleNodes == CountLinks(DecodeNodes(SampleGraph, SampleConfig),
                          DecodeLinks(SampleGraph, DecodeNodes(SampleGraph, SampleConfig)))

SampleLinks == DecodeLinks(SampleGraph, DecodeNodes(SampleGraph, SampleConfig))

\* tagIndexCache (part_002 396-405) as the plain object the filter effect
\* sends: tag -> ids in insertion order
TagsOf(nodes) == UNION {Range(nodes[i].tags) : i \in 1..Len(nodes)}

RECURSIVE IdsWithTag(_, _)
IdsWithTag(nodes, tag) ==
    IF nodes = <<>> THEN <<>>
    ELSE LET rest == IdsWithTag(SubSeq(nodes, 1, Len(nodes) - 1), tag)
             node == nodes[Len(nodes)]
         IN  IF tag \in Range(node.tags) THEN SetAdd(rest, node.id) ELSE rest

tagIndexCache(nodes) == [tag \in TagsOf(nodes) |-> IdsWithTag(nodes, tag)]

-----------------------------------------------------------------------------
(* Specification SpecPool: one WorkerPool, driven by any caller *)

\* The calls explored: the priority the filter effect passes and the default
PoolCalls == {<<"filter", 10>>, <<"filter", 50>>}

\* A payload of each type
Payload(type) ==
    CASE type = "filter" ->
           [nodes |-> SampleNodes, links |-> SampleLinks, searchTerm |-> <<"B">>,
            selectedTags |-> <<>>, tagIndexCache |-> tagIndexCache(SampleNodes)]
      [] type = "textCache" -> [nodes |-> SampleNodes]
      [] type = "nodeSize" ->
           [nodes |-> SampleNodes,
            nodeSizeMultiplier |-> SampleConfig.nodeSizeMultiplier]
      [] type = "forceParams" ->
           [filteredNodes |-> SampleNodes, filteredLinks |-> SampleLinks,
            baseConfig |-> [centerStrength |-> SampleConfig.forces.centerStrength],
            canvasWidth |-> SampleCanvas.width, canvasHeight |-> SampleCanvas.height]

NoCallback == [none |-> TRUE]

\* No App component is mounted.
NoApp ==
    /\ app = [mounted |-> FALSE]
    /\ changes = 0

\* The engine has not been called directly.
NoProbe == probe = [called |-> FALSE]

NoCallbackYet ==
    /\ callbackCount = 0
    /\ lastCallback = NoCallback
    /\ delivered = {}

InitBatcherIdle ==
    /\ results = <<>>
    /\ pending = {}
    /\ callback = "null"
    /\ timer = FALSE
    /\ NoCallbackYet
    /\ lateRegistration = FALSE
    /\ cleared = FALSE

InitPool ==
    /\ \E poolSize \in RequestedSizes, hardwareConcurrency \in Concurrencies :
          LET p == NewPool(PoolSize(poolSize, hardwareConcurrency))
          IN  /\ workers = p.workers
              /\ taskQueue = p.taskQueue
              /\ taskMap = p.taskMap
              /\ promise = p.promise
              /\ units = p.units
              /\ nextId = p.nextId
              /\ uncaught = p.uncaught
    /\ InitBatcherIdle
    /\ handlers = <<>>
    /\ raised = {}
    /\ NoApp
    /\ NoProbe

\* A caller submits a task.
AddTask(type, priority) ==
    /\ nextId <= MaxTasks
    /\ SetPool(addTask(Pool, type, Payload(type), priority))
    /\ UNCHANGED <<bpVars, callerVars>>
    /\ UNCHANGED appVars
    /\ UNCHANGED probeVars

\* Unit w runs its message handler on the next message posted to it.
UnitRuns(w, outcome) ==
    /\ units[w].inbox # <<>>
    /\ units' = [units EXCEPT ![w] = RunUnit(@, outcome)]
    /\ raised' = IF outcome = "result"
                    /\ onmessage(units[w], Head(units[w].inbox)).result # Thrown
                 THEN raised
                 ELSE raised \cup {Head(units[w].inbox).taskId}
    /\ UNCHANGED <<workers, taskQueue, taskMap, promise, nextId, uncaught>>
    /\ UNCHANGED <<bpVars, handlers>>
    /\ UNCHANGED appVars
    /\ UNCHANGED probeVars

\* The main thread receives the next event of unit w: a message goes to
\* handleMessage, an error event to worker.onerror.
Deliver(p, w) ==
    LET event == Head(p.units[w].outbox)
        p1 == [p EXCEPT !.units[w].outbox = Tail(@)]
    IN  IF event.kind = "message" THEN handleMessage(p1, event.data, w)
        ELSE onerror(p1, w)

PoolReceives(w) ==
    /\ units[w].outbox # <<>>
    /\ SetPool(Deliver(Pool, w))
    /\ UNCHANGED <<bpVars, callerVars>>
    /\ UNCHANGED appVars
    /\ UNCHANGED probeVars

Terminate ==
    /\ workers # <<>>
    /\ SetPool(terminate(Pool))
    /\ UNCHANGED <<bpVars, callerVars>>
    /\ UNCHANGED appVars
    /\ UNCHANGED probeVars

NextPool ==
    \/ \E call \in PoolCalls : AddTask(call[1], call[2])
    \/ \E w \in DOMAIN units, outcome \in Outcomes : UnitRuns(w, outcome)
    \/ \E w \in DOMAIN units : PoolReceives(w)
    \/ Terminate

SpecPool == InitPool /\ [][NextPool]_vars


-----------------------------------------------------------------------------
(* Specification SpecBatch: one BatchProcessor, driven by any caller whose   *)
(* tasks settle in any order.  The processor is the one the App constructs: *)
(* new BatchProcessor(50), then onUpdate(callback).                         *)

\* The result a task of each type is resolved with: what a unit computes for
\* the payload of that type.
\* The kinds registered: one whose result is destructured, one read by a
\* property, one stored whole.
BatchKinds == {"filter", "textCache", "forceParams"}

SampleResult(type) == onmessage(NewUnit, [type |-> type, data |-> Payload(type)]).result

NoPool ==
    /\ workers = <<>>
    /\ taskQueue = <<>>
    /\ taskMap = <<>>
    /\ promise = <<>>
    /\ units = <<>>
    /\ nextId = 1
    /\ uncaught = {}

InitBatch ==
    /\ NoPool
    /\ results = <<>>
    /\ pending = {}
    /\ callback = "onUpdate"
    /\ timer = FALSE
    /\ NoCallbackYet
    /\ lateRegistration = FALSE
    /\ cleared = FALSE
    /\ handlers = <<>>
    /\ raised = {}
    /\ NoApp
    /\ NoProbe

\* The caller creates a task id, registers it and holds a promise for it.
Register(type) ==
    /\ nextId <= MaxRegistered
    /\ SetBatcher(registerTask(Batcher, TaskId(type, nextId)))
    /\ promise' = MapSet(promise, nextId, [state |-> "pending"])
    /\ handlers' = MapSet(handlers, nextId, TaskId(type, nextId))
    /\ nextId' = nextId + 1
    /\ lateRegistration' =
          (lateRegistration \/ \E n \in DOMAIN promise : promise[n].state # "pending")
    /\ UNCHANGED <<workers, taskQueue, taskMap, units, uncaught, callbackCount,
                   lastCallback, delivered, cleared, raised>>
    /\ UNCHANGED appVars
    /\ UNCHANGED probeVars

\* The promise of task n is fulfilled: .then(result => addResult(taskId, result))
Resolve(n) ==
    /\ promise[n].state = "pending"
    /\ promise' = [promise EXCEPT ![n] = [state |-> "fulfilled",
                                          value |-> SampleResult(handlers[n].type)]]
    /\ SetBatcher(addResult(Batcher, handlers[n], SampleResult(handlers[n].type)))
    /\ UNCHANGED <<workers, taskQueue, taskMap, units, nextId, uncaught, callbackCount,
                   lastCallback, delivered, lateRegistration, cleared, callerVars>>
    /\ UNCHANGED appVars
    /\ UNCHANGED probeVars

\* The promise of task n is rejected: .catch(error => failTask(taskId))
Reject(n) ==
    /\ promise[n].state = "pending"
    /\ promise' = [promise EXCEPT ![n] = [state |-> "rejected"]]
    /\ SetBatcher(failTask(Batcher, handlers[n]))
    /\ UNCHANGED <<workers, taskQueue, taskMap, units, nextId, uncaught, callbackCount,
                   lastCallback, delivered, lateRegistration, cleared, callerVars>>
    /\ UNCHANGED appVars
    /\ UNCHANGED probeVars

\* The timeout set by scheduleUpdate fires.
TimerFires ==
    /\ timer
    /\ LET r == executeUpdate(Batcher)
       IN  /\ SetBatcher(r.bp)
           /\ Invoked(r, Batcher)
           /\ uncaught' = IF r.threw THEN uncaught \cup {"executeUpdate"} ELSE uncaught
    /\ UNCHANGED <<workers, taskQueue, taskMap, promise, units, nextId,
                   lateRegistration, cleared, callerVars>>
    /\ UNCHANGED appVars
    /\ UNCHANGED probeVars

\* clear() (on a processor that holds nothing it changes nothing)
Clear ==
    /\ timer \/ results # <<>> \/ pending # {}
    /\ SetBatcher(clear(Batcher))
    /\ cleared' = TRUE
    /\ UNCHANGED <<poolVars, callbackCount, lastCallback, delivered,
                   lateRegistration, callerVars>>
    /\ UNCHANGED appVars
    /\ UNCHANGED probeVars

NextBatch ==
    \/ \E type \in BatchKinds : Register(type)
    \/ \E n \in DOMAIN handlers : Resolve(n)
    \/ \E n \in DOMAIN handlers : Reject(n)
    \/ TimerFires
    \/ Clear

SpecBatch == InitBatch /\ [][NextBatch]_vars

-----------------------------------------------------------------------------
(* Specification SpecApp: the App component (src/unnamed/part_002) with its  *)
(* pool and its processor.  A state change, the render it causes and the    *)
(* effects of that render run without interruption on the main thread, so   *)
(* each is one action.  The state updates of one handler are batched into   *)
(* one render; the graph is fetched from a URL without search parameters.   *)

\* Number of changes of the search term or of a tag explored.
MaxChanges == 2

\* Number of task executions that raise in a unit.
MaxFailures == 1

\* navigator.hardwareConcurrency of the machine the App runs on
AppConcurrency == 2

\* What the user types into the search box, and the tags the user toggles
SearchTerms == {<<>>, <<"B">>}
AppTags == {"sysop"}

\* useState<...| null>(null) of forceParams
NoParams == [null |-> TRUE]

\* The useState initial values once setConfig(CONFIG) has run (part_002 211-245,
\* 310-312)
NewApp ==
    [mounted |-> TRUE,
     config |-> SampleConfig,
     nodes |-> <<>>,
     links |-> <<>>,
     searchTerm |-> <<>>,
     selectedTags |-> <<>>,
     workerFilteredNodeIds |-> {},
     workerSearchedNodeId |-> Null,
     textLineCache |-> <<>>,
     nodeSizeCache |-> <<>>,
     forceParams |-> NoParams]

\* The App with its two refs and the closures of its promise reactions
World == [app |-> app, pool |-> Pool, bp |-> Batcher, handlers |-> handlers]

SetWorld(w) ==
    /\ app' = w.app
    /\ SetPool(w.pool)
    /\ SetBatcher(w.bp)
    /\ handlers' = w.handlers

\* const filteredNodes = useMemo(...), filteredLinks, isFiltered
filteredNodes(a) ==
    SelectSeq(a.nodes, LAMBDA node : node.id \in a.workerFilteredNodeIds)

filteredLinks(a) ==
    SelectSeq(a.links, LAMBDA link : /\ link.source \in a.workerFilteredNodeIds
                                     /\ link.target \in a.workerFilteredNodeIds)

isFiltered(a) == Trim(a.searchTerm) # <<>> \/ a.selectedTags # <<>>

\* registerTask(taskId); addTask(type, data, priority).then(addResult).catch(failTask)
Submit(w, type, data, priority) ==
    LET taskId == TaskId(type, w.pool.nextId)
    IN  [w EXCEPT !.bp = registerTask(@, taskId),
                  !.handlers = MapSet(@, w.pool.nextId, taskId),
                  !.pool = addTask(@, type, data, priority)]

\* The filter effect
filterEffect(w) ==
    LET a == w.app
    IN  IF Trim(a.searchTerm) = <<>> /\ a.selectedTags = <<>>
        THEN [w EXCEPT !.app.workerFilteredNodeIds =
                            {a.nodes[i].id : i \in 1..Len(a.nodes)},
                       !.app.workerSearchedNodeId = Null]
        ELSE Submit(w, "filter",
                    [nodes |-> a.nodes, links |-> a.links,
                     searchTerm |-> a.searchTerm,
                     selectedTags |-> a.selectedTags,
                     tagIndexCache |-> tagIndexCache(a.nodes)],
                    10)

\* The force-parameters effect
forceParamsEffect(w) ==
    LET a == w.app
    IN  IF ~isFiltered(a)
        THEN [w EXCEPT !.app.forceParams = NoParams]
        ELSE Submit(w, "forceParams",
                    [filteredNodes |-> filteredNodes(a),
                     filteredLinks |-> filteredLinks(a),
                     baseConfig |-> [centerStrength |-> a.config.forces.centerStrength],
                     canvasWidth |-> SampleCanvas.width,
                     canvasHeight |-> SampleCanvas.height],
                    20)

\* The text-cache and node-size effect: both ids are registered, then both
\* tasks are submitted.
cacheEffect(w) ==
    LET a == w.app
        n == w.pool.nextId
        textCacheTaskId == TaskId("textCache", n)
        nodeSizeTaskId == TaskId("nodeSize", n + 1)
    IN  IF Len(a.nodes) = 0 THEN w
        ELSE [w EXCEPT
                !.bp = registerTask(registerTask(@, textCacheTaskId), nodeSizeTaskId),
                !.handlers = MapSet(MapSet(@, n, textCacheTaskId), n + 1, nodeSizeTaskId),
                !.pool = addTask(addTask(@, "textCache", [nodes |-> a.nodes], 50),
                                 "nodeSize",
                                 [nodes |-> a.nodes,
                                  nodeSizeMultiplier |-> a.config.nodeSizeMultiplier],
                                 50)]

\* The callback given to onUpdate.  Only forceParams can be present in a batch
\* with the value undefined (every other key is read off its task's result).
onUpdateCallback(a, result) ==
    LET a1 == IF "filteredNodeIds" \in DOMAIN result
              THEN [a EXCEPT !.workerFilteredNodeIds = result["filteredNodeIds"],
                             !.workerSearchedNodeId = result["searchedNodeId"]]
              ELSE a
        a2 == IF "textLineCache" \in DOMAIN result
              THEN [a1 EXCEPT !.textLineCache = result["textLineCache"]]
              ELSE a1
        a3 == IF "nodeSizeCache" \in DOMAIN result
              THEN [a2 EXCEPT !.nodeSizeCache = result["nodeSizeCache"]]
              ELSE a2
    IN  IF "forceParams" \in DOMAIN result /\ result["forceParams"] # Undefined
        THEN [a3 EXCEPT !.forceParams = result["forceParams"]]
        ELSE a3

\* The renders after searchTerm or selectedTags changed.  The filter effect
\* runs; the force-parameters effect runs when isFiltered changed, and again in
\* the render that follows the filter effect's setWorkerFilteredNodeIds.
AfterFilterChange(before, w) ==
    LET w1 == filterEffect(w)
    IN  IF isFiltered(before) # isFiltered(w.app) \/ ~isFiltered(w.app)
        THEN forceParamsEffect(w1)
        ELSE w1

\* new Set(prev) with the tag deleted when present, added otherwise
toggleTag(tags, tag) ==
    IF tag \in Range(tags) THEN SelectSeq(tags, LAMBDA t : t # tag)
    ELSE Append(tags, tag)

InitApp ==
    /\ app = NewApp
    /\ changes = 0
    /\ NoProbe
    /\ LET p == NewPool(PoolSize(AppConcurrency, AppConcurrency))
       IN  /\ workers = p.workers
           /\ taskQueue = p.taskQueue
           /\ taskMap = p.taskMap
           /\ promise = p.promise
           /\ units = p.units
           /\ nextId = p.nextId
           /\ uncaught = p.uncaught
    /\ results = <<>>
    /\ pending = {}
    /\ callback = "onUpdate"
    /\ timer = FALSE
    /\ NoCallbackYet
    /\ lateRegistration = FALSE
    /\ cleared = FALSE
    /\ handlers = <<>>
    /\ raised = {}

\* loadGraph: the graph is decoded, setNodes, setLinks and
\* setWorkerFilteredNodeIds are applied, and the render runs the filter, the
\* force-parameters and the cache effects.
LoadGraph ==
    /\ app.nodes = <<>>
    /\ LET nodeArray == CountLinks(DecodeNodes(SampleGraph, app.config),
                            DecodeLinks(SampleGraph, DecodeNodes(SampleGraph, app.config)))
           decompressedLinks == DecodeLinks(SampleGraph, nodeArray)
           w == [World EXCEPT
                   !.app.nodes = nodeArray,
                   !.app.links = decompressedLinks,
                   !.app.workerFilteredNodeIds =
                        {nodeArray[i].id : i \in 1..Len(nodeArray)}]
       IN  SetWorld(cacheEffect(forceParamsEffect(filterEffect(w))))
    /\ UNCHANGED <<callbackCount, lastCallback, delivered, lateRegistration,
                   cleared, raised, changes>>
    /\ UNCHANGED probeVars

\* The user types in the search box, or clicks a node: setSearchTerm(term)
SetSearchTerm(term) ==
    /\ changes < MaxChanges
    /\ term # app.searchTerm
    /\ SetWorld(AfterFilterChange(app, [World EXCEPT !.app.searchTerm = term]))
    /\ changes' = changes + 1
    /\ UNCHANGED <<callbackCount, lastCallback, delivered, lateRegistration,
                   cleared, raised>>
    /\ UNCHANGED probeVars

\* The user clicks a tag of the loaded graph: toggleTag(tag)
ToggleTag(tag) ==
    /\ changes < MaxChanges
    /\ tag \in TagsOf(app.nodes)
    /\ SetWorld(AfterFilterChange(app,
           [World EXCEPT !.app.selectedTags = toggleTag(@, tag)]))
    /\ changes' = changes + 1
    /\ UNCHANGED <<callbackCount, lastCallback, delivered, lateRegistration,
                   cleared, raised>>
    /\ UNCHANGED probeVars

\* What a task of the App ends in: an exception raised while it computes is
\* caught by the try block of the unit's handler (worker.ts 233-347).
AppOutcomes == {"result", "caught"}

\* A unit runs its handler on the next message; at most MaxFailures executions raise.
WorkerRuns(w, outcome) ==
    /\ outcome # "result" => Cardinality(raised) < MaxFailures
    /\ UnitRuns(w, outcome)

\* The main thread receives the next event of unit w, then runs the reaction
\* of the promise that handleMessage settled: addResult(taskId, result).
AppReceives(w) ==
    /\ units[w].outbox # <<>>
    /\ LET event == Head(units[w].outbox)
           p == Deliver(Pool, w)
           settled == /\ event.kind = "message"
                      /\ event.data.taskId \in DOMAIN taskMap
       IN  /\ SetPool(p)
           /\ SetBatcher(IF settled
                         THEN addResult(Batcher, handlers[event.data.taskId],
                                        p.promise[event.data.taskId].value)
                         ELSE Batcher)
    /\ UNCHANGED <<callbackCount, lastCallback, delivered, lateRegistration,
                   cleared, callerVars, appVars>>
    /\ UNCHANGED probeVars

\* The processor's timeout fires: executeUpdate, the callback, and the render
\* that follows it, whose force-parameters effect runs when
\* workerFilteredNodeIds was set.
AppTimerFires ==
    /\ timer
    /\ LET r == executeUpdate(Batcher)
           w == [World EXCEPT !.bp = r.bp]
       IN  /\ Invoked(r, Batcher)
           /\ IF r.threw
              THEN SetWorld([w EXCEPT !.pool.uncaught = @ \cup {"executeUpdate"}])
              ELSE IF ~r.invoked THEN SetWorld(w)
              ELSE LET w1 == [w EXCEPT !.app = onUpdateCallback(@, r.batch)]
                   IN  IF "filteredNodeIds" \in DOMAIN r.batch
                       THEN SetWorld(forceParamsEffect(w1))
                       ELSE SetWorld(w1)
    /\ UNCHANGED <<lateRegistration, cleared, raised, changes>>
    /\ UNCHANGED probeVars

NextApp ==
    \/ LoadGraph
    \/ \E term \in SearchTerms : SetSearchTerm(term)
    \/ \E tag \in AppTags : ToggleTag(tag)
    \/ \E w \in DOMAIN units, outcome \in AppOutcomes : WorkerRuns(w, outcome)
    \/ \E w \in DOMAIN units : AppReceives(w)
    \/ AppTimerFires

SpecApp == InitApp /\ [][NextApp]_vars

-----------------------------------------------------------------------------
(* The other two filter implementations: the useFilter hook                 *)
(* (src/src/useFilter.ts 15-130) and the single filter worker               *)
(* (src/src/filterWorker.ts).                                                *)

\* String.prototype.toLowerCase on the letters the model's names use
LowerCase == [c \in {"A", "B", "C", "D", "Z"} |->
                 CASE c = "A" -> "a" [] c = "B" -> "b" [] c = "C" -> "c"
                   [] c = "D" -> "d" [] c = "Z" -> "z"]

toLowerCase(s) ==
    [i \in 1..Len(s) |-> IF s[i] \in DOMAIN LowerCase THEN LowerCase[s[i]] ELSE s[i]]

\* nodes.find(node => node.name.toLowerCase() === searchLower)
FindByLowerName(nodes, searchLower) ==
    IF \E i \in 1..Len(nodes) : toLowerCase(nodes[i].name) = searchLower
    THEN CHOOSE i \in 1..Len(nodes) :
            /\ toLowerCase(nodes[i].name) = searchLower
            /\ \A j \in 1..(i - 1) : toLowerCase(nodes[j].name) # searchLower
    ELSE 0

\* nodes.forEach(node => node.tags.some(tag => selectedTags.has(tag)) && add(node.id))
RECURSIVE IdsWithSomeTag(_, _)
IdsWithSomeTag(nodes, selectedTags) ==
    IF nodes = <<>> THEN <<>>
    ELSE LET rest == IdsWithSomeTag(SubSeq(nodes, 1, Len(nodes) - 1), selectedTags)
             node == nodes[Len(nodes)]
         IN  IF Range(node.tags) \cap Range(selectedTags) # {}
             THEN SetAdd(rest, node.id) ELSE rest

\* The useMemo of the useFilter hook
useFilter(nodes, links, searchTerm, selectedTags) ==
    LET searching == Trim(searchTerm) # <<>>
        m == FindByLowerName(nodes, toLowerCase(searchTerm))
        searchedNodeIdResult == IF searching /\ m # 0 THEN nodes[m].id ELSE Null
        afterSearch ==
            IF searching /\ m # 0
            THEN AddNeighbours(<<nodes[m].id>>, links, nodes[m].id)
            ELSE <<>>
        tagFilteredNodeIds == IdsWithSomeTag(nodes, selectedTags)
        resultNodeIds ==
            IF selectedTags = <<>> THEN afterSearch
            ELSE IF searching
            THEN SelectSeq(afterSearch,
                     LAMBDA id : id \in Range(tagFilteredNodeIds)
                                 \/ id = searchedNodeIdResult)
            ELSE tagFilteredNodeIds
    IN  IF ~searching /\ selectedTags = <<>>
        THEN [filteredNodes |-> nodes, filteredLinks |-> links, searchedNodeId |-> Null]
        ELSE IF searching /\ m = 0
        THEN [filteredNodes |-> <<>>, filteredLinks |-> <<>>, searchedNodeId |-> Null]
        ELSE [filteredNodes |->
                  SelectSeq(nodes, LAMBDA node : node.id \in Range(resultNodeIds)),
              filteredLinks |->
                  SelectSeq(links, LAMBDA link : /\ link.source \in Range(resultNodeIds)
                                                 /\ link.target \in Range(resultNodeIds)),
              searchedNodeId |-> searchedNodeIdResult]

\* selectedTags.forEach(tag => (tagIndexCache[tag] || []).forEach(add)) without
\* the `in` test: an absent tag gives undefined, hence []
RECURSIVE TagUnionOrEmpty(_, _, _)
TagUnionOrEmpty(acc, tags, index) ==
    IF tags = <<>> THEN acc
    ELSE TagUnionOrEmpty(
             IF Head(tags) \in DOMAIN index THEN SetAddAll(acc, index[Head(tags)])
             ELSE acc,
             Tail(tags), index)

\* self.onmessage of filterWorker.ts: the result it posts, or Thrown (nothing
\* catches it there)
filterWorker(nodes, links, searchTerm, selectedTags, index) ==
    LET searching == Trim(searchTerm) # <<>>
        m == FindByLowerName(nodes, toLowerCase(searchTerm))
        searchedNodeIdResult == IF searching /\ m # 0 THEN nodes[m].id ELSE Null
        afterSearch ==
            IF searching /\ m # 0
            THEN AddNeighbours(<<nodes[m].id>>, links, nodes[m].id)
            ELSE <<>>
        tagFilteredNodeIds == TagUnionOrEmpty(<<>>, selectedTags, index)
        resultNodeIds ==
            IF selectedTags = <<>> THEN afterSearch
            ELSE IF searching
            THEN SelectSeq(afterSearch,
                     LAMBDA id : id \in Range(tagFilteredNodeIds)
                                 \/ id = searchedNodeIdResult)
            ELSE tagFilteredNodeIds
    IN  IF searching /\ m = 0
        THEN [filteredNodeIds |-> <<>>, filteredLinkIds |-> <<>>,
              searchedNodeId |-> Null]
        ELSE IF \E i \in 1..Len(selectedTags) :
                    /\ selectedTags[i] \notin DOMAIN index
                    /\ selectedTags[i] \in ObjectPrototypeKeys
        THEN Thrown
        ELSE [filteredNodeIds |-> resultNodeIds,
              filteredLinkIds |-> LinkIds(links, Range(resultNodeIds)),
              searchedNodeId |-> searchedNodeIdResult]

-----------------------------------------------------------------------------
(* Specification SpecFilter: the three filter implementations called on one  *)
(* request, drawn from the graphs, search terms and tag selections below.    *)

\* The node lists of graph.json explored
NodeLists ==
    { <<>>,
      SampleGraph.d,
      << [n |-> <<"A">>, t |-> <<"sysop">>],
         [n |-> <<"B">>, t |-> <<"sysop", "bot">>],
         [n |-> <<"C">>],
         [n |-> <<"D">>, t |-> <<"bot">>] >> }

\* The links explored are the sublists of A-B, B-C, C-A
AllLinks == << <<0, 1>>, <<1, 2>>, <<2, 0>> >>

RECURSIVE Sublist(_, _)
Sublist(list, keep) ==
    IF list = <<>> THEN <<>>
    ELSE Sublist(SubSeq(list, 1, Len(list) - 1), keep)
         \o (IF Len(list) \in keep THEN <<list[Len(list)]>> ELSE <<>>)

CompressedGraphs ==
    { [d |-> d, l |-> Sublist(AllLinks, keep)] :
        d \in NodeLists \ {<<>>}, keep \in SUBSET (1..Len(AllLinks)) }
    \cup { [d |-> <<>>, l |-> <<>>] }

\* What loadGraph makes of a graph.json
Decode(compressed) ==
    LET nodeArray == DecodeNodes(compressed, SampleConfig)
        decompressedLinks == DecodeLinks(compressed, nodeArray)
    IN  [nodes |-> CountLinks(nodeArray, decompressedLinks), links |-> decompressedLinks]

Graphs == { Decode(compressed) : compressed \in CompressedGraphs }

\* Search terms: none, blank, an exact name, a padded one, another case, no name
FilterTerms == { <<>>, <<" ">>, <<"B">>, <<" ", "B">>, <<"b">>, <<"Z">> }

\* Tag selections: known tags, a tag no node carries, a property name of
\* Object.prototype
TagSelections == { <<>>, <<"sysop">>, <<"bot">>, <<"sysop", "bot">>, <<"nosuch">>,
                   <<"sysop", "nosuch">>, <<"constructor">> }

NotCalled == [called |-> FALSE]

InitIdle ==
    /\ NoPool
    /\ InitBatcherIdle
    /\ handlers = <<>>
    /\ raised = {}
    /\ NoApp

InitFilter ==
    /\ InitIdle
    /\ \E graph \in Graphs, searchTerm \in FilterTerms, selectedTags \in TagSelections :
          probe = [nodes |-> graph.nodes, links |-> graph.links,
                   searchTerm |-> searchTerm, selectedTags |-> selectedTags,
                   worker |-> NotCalled, hook |-> NotCalled, single |-> NotCalled]

\* processFilter of worker.ts is called with the request
CallProcessFilter ==
    /\ probe.worker = NotCalled
    /\ probe' = [probe EXCEPT !.worker =
                    processFilter(probe.nodes, probe.links, probe.searchTerm,
                                  probe.selectedTags, tagIndexCache(probe.nodes))]
    /\ UNCHANGED <<poolVars, bpVars, callerVars, appVars>>

\* The hook is rendered with the request
CallUseFilter ==
    /\ probe.hook = NotCalled
    /\ probe' = [probe EXCEPT !.hook =
                    useFilter(probe.nodes, probe.links, probe.searchTerm,
                              probe.selectedTags)]
    /\ UNCHANGED <<poolVars, bpVars, callerVars, appVars>>

\* The request is posted to the single filter worker
CallFilterWorker ==
    /\ probe.single = NotCalled
    /\ probe' = [probe EXCEPT !.single =
                    filterWorker(probe.nodes, probe.links, probe.searchTerm,
                                 probe.selectedTags, tagIndexCache(probe.nodes))]
    /\ UNCHANGED <<poolVars, bpVars, callerVars, appVars>>

NextFilter ==
    \/ CallProcessFilter
    \/ CallUseFilter
    \/ CallFilterWorker

SpecFilter == InitFilter /\ [][NextFilter]_vars

-----------------------------------------------------------------------------
(* Specification SpecUnit: one unit (src/src/worker.ts) answering a sequence *)
(* of requests, one at a time, each drawn from the requests below.           *)

\* Number of requests one unit is sent.
MaxRequests == 2

\* Graphs the requests carry: the sample, the sample without the link B-C
\* (as many nodes, other links), and one with four nodes
UnitGraphs ==
    { Decode(SampleGraph),
      Decode([d |-> SampleGraph.d, l |-> << <<0, 1>> >>]),
      Decode([d |-> << [n |-> <<"A">>], [n |-> <<"B">>], [n |-> <<"C">>],
                       [n |-> <<"D">>, t |-> <<"bot">>] >>,
              l |-> << <<0, 1>>, <<1, 2>>, <<2, 0>> >>]) }

\* config.nodeSizeMultiplier, centerStrength and canvas sizes the requests carry
Multipliers == {SampleConfig.nodeSizeMultiplier, "0.5"}
Strengths == {Rat(1, 1), Rat(2, 1), Rat(1, 2), Rat(4, 1)}
Canvases == {SampleCanvas, [width |-> 300, height |-> 400]}

\* The messages a caller posts, without their task id
FilterRequests ==
    { [type |-> "filter",
       data |-> [nodes |-> graph.nodes, links |-> graph.links,
                 searchTerm |-> searchTerm, selectedTags |-> <<>>,
                 tagIndexCache |-> tagIndexCache(graph.nodes)]] :
        graph \in UnitGraphs, searchTerm \in {<<>>, <<" ">>, <<"B">>} }

TextCacheRequests ==
    { [type |-> "textCache", data |-> [nodes |-> graph.nodes]] : graph \in UnitGraphs }

NodeSizeRequests ==
    { [type |-> "nodeSize",
       data |-> [nodes |-> graph.nodes, nodeSizeMultiplier |-> multiplier]] :
        graph \in UnitGraphs, multiplier \in Multipliers }

ForceParamsRequests ==
    { [type |-> "forceParams",
       data |-> [filteredNodes |-> graph.nodes, filteredLinks |-> graph.links,
                 baseConfig |-> [centerStrength |-> strength],
                 canvasWidth |-> canvas.width, canvasHeight |-> canvas.height]] :
        graph \in UnitGraphs, strength \in {Rat(1, 1), Rat(2, 1)}, canvas \in Canvases }

Requests == FilterRequests \cup TextCacheRequests \cup NodeSizeRequests
            \cup ForceParamsRequests

\* The request is one the handler treats as having no active filter
IsNoFilter(request) ==
    /\ request.type = "filter"
    /\ Trim(request.data.searchTerm) = <<>>
    /\ Len(request.data.selectedTags) = 0

InitUnit ==
    /\ workers = <<>>
    /\ taskQueue = <<>>
    /\ taskMap = <<>>
    /\ promise = <<>>
    /\ units = <<NewUnit>>
    /\ nextId = 1
    /\ uncaught = {}
    /\ InitBatcherIdle
    /\ handlers = <<>>
    /\ raised = {}
    /\ NoApp
    /\ probe = [sent |-> <<>>, replies |-> <<>>, memoFrom |-> NoCache]

\* worker.postMessage({taskId, type, ...data}) once the unit has answered the
\* request before
Ask(request) ==
    /\ Len(probe.sent) < MaxRequests
    /\ units[1].inbox = <<>> /\ units[1].outbox = <<>>
    /\ units' = [units EXCEPT ![1].inbox =
                    Append(@, [taskId |-> Len(probe.sent) + 1, type |-> request.type,
                               data |-> request.data])]
    /\ probe' = [probe EXCEPT !.sent = Append(@, request)]
    /\ UNCHANGED <<workers, taskQueue, taskMap, promise, nextId, uncaught>>
    /\ UNCHANGED <<bpVars, callerVars, appVars>>

\* self.onmessage runs on the request.  History: the request whose graph the
\* no-filter memo was computed from.
Answer ==
    /\ units[1].inbox # <<>>
    /\ units' = [units EXCEPT ![1] = RunUnit(@, "result")]
    /\ probe' = [probe EXCEPT !.memoFrom =
                    IF /\ IsNoFilter(Head(units[1].inbox))
                       /\ units[1].cachedAllNodesFilterResult = NoCache
                    THEN [nodes |-> Head(units[1].inbox).data.nodes,
                          links |-> Head(units[1].inbox).data.links]
                    ELSE @]
    /\ UNCHANGED <<workers, taskQueue, taskMap, promise, nextId, uncaught>>
    /\ UNCHANGED <<bpVars, callerVars, appVars>>

\* The caller receives the unit's reply.
Collect ==
    /\ units[1].outbox # <<>>
    /\ units' = [units EXCEPT ![1].outbox = Tail(@)]
    /\ probe' = [probe EXCEPT !.replies = Append(@, Head(units[1].outbox).data)]
    /\ UNCHANGED <<workers, taskQueue, taskMap, promise, nextId, uncaught>>
    /\ UNCHANGED <<bpVars, callerVars, appVars>>

NextUnit ==
    \/ \E request \in Requests : Ask(request)
    \/ Answer
    \/ Collect

SpecUnit == InitUnit /\ [][NextUnit]_vars

-----------------------------------------------------------------------------
(* Specification SpecForce: calculateForceParams called on one filtered      *)
(* graph, base strength and canvas.                                          *)

\* The filtered graphs the function is called on: the decoded graphs, and an
\* empty node list together with links.
ForceGraphs == Graphs \cup {[nodes |-> <<>>, links |-> SampleLinks]}

InitForce ==
    /\ InitIdle
    /\ \E graph \in ForceGraphs, strength \in Strengths, canvas \in Canvases :
          probe = [filteredNodes |-> graph.nodes, filteredLinks |-> graph.links,
                   base |-> strength, canvas |-> canvas, params |-> NotCalled]

CallCalculateForceParams ==
    /\ probe.params = NotCalled
    /\ probe' = [probe EXCEPT !.params =
                    calculateForceParams(probe.filteredNodes, probe.filteredLinks,
                                         probe.base, probe.canvas.width,
                                         probe.canvas.height)]
    /\ UNCHANGED <<poolVars, bpVars, callerVars, appVars>>

NextForce == CallCalculateForceParams

SpecForce == InitForce /\ [][NextForce]_vars

-----------------------------------------------------------------------------
(* Specification SpecWrap: buildTextLineCache called on one node whose name  *)
(* is drawn from the names below.                                            *)

\* Length, in whole characters, of the longest name explored.
MaxNameLength == 52

\* A name of `length` letters whose character at position `astral` (if any)
\* lies outside the basic plane
NameOf(length, astral) ==
    [i \in 1..length |-> IF i = astral THEN "U+1F600" ELSE "a"]

Names == { NameOf(length, astral) :
             length \in 0..MaxNameLength, astral \in {0, 1, 2, CharLimit, CharLimit + 1} }

InitWrap ==
    /\ InitIdle
    /\ \E name \in Names : probe = [name |-> name, called |-> FALSE, lines |-> <<>>]

CallBuildTextLineCache ==
    /\ ~probe.called
    /\ probe' = [probe EXCEPT
                    !.called = TRUE,
                    !.lines = buildTextLineCache(
                                  <<[id |-> probe.name, name |-> probe.name]>>)
                                  [probe.name]]
    /\ UNCHANGED <<poolVars, bpVars, callerVars, appVars>>

NextWrap == CallBuildTextLineCache

SpecWrap == InitWrap /\ [][NextWrap]_vars

-----------------------------------------------------------------------------
(* Specification SpecLoad: the loadGraph effect of the App run once on a     *)
(* graph.json drawn from the payloads below, followed by the render that     *)
(* re-evaluates the tagIndexCache memo (src/unnamed/part_002 314-405).       *)

\* Link pairs of graph.json: in range, out of range for three nodes (3), for
\* four nodes (4), negative, and a pair with one entry
LoadPairs == { <<0, 1>>, <<1, 0>>, <<1, 1>>, <<0, 3>>, <<4, 0>>, <<-1, 0>>, <<0>> }

LoadLinks == { <<>> } \cup { <<a>> : a \in LoadPairs }
                      \cup { <<a, b>> : a \in LoadPairs, b \in LoadPairs }

\* The payloads: every node list with every link list, and one without `d`
Payloads ==
    { [d |-> d, l |-> l] : d \in NodeLists, l \in LoadLinks }
    \cup { [l |-> <<>>] }

\* The tags selected from the URL when the effect runs
UrlTags == { {}, {"sysop"}, {"nosuch"} }

\* useState initial values read or written by loadGraph (part_002 211-216)
NewLoadState(selectedTags) ==
    [nodes |-> <<>>, links |-> <<>>, workerFilteredNodeIds |-> {},
     selectedTags |-> selectedTags, loading |-> TRUE, error |-> Null]

\* nodeArray[link[j]] is an element of the array
HasNode(nodeArray, link, j) ==
    j <= Len(link) /\ (link[j] + 1) \in DOMAIN nodeArray

\* compressed.d.map and nodeArray[link[0]].id, nodeArray[link[1]].id throw a
\* TypeError on a payload without d, or a link whose entry selects no element
DecodeThrows(compressed) ==
    \/ "d" \notin DOMAIN compressed
    \/ \E k \in 1..Len(compressed.l) : \E j \in 1..2 :
          ~HasNode(compressed.d, compressed.l[k], j)

\* Mutant of loadGraph: links that select no node are skipped and the rest of
\* the graph is published.
loadGraph_SkipsBadLinks(compressed, config, state) ==
    IF "d" \notin DOMAIN compressed
    THEN [state EXCEPT !.error = <<"Failed to load graph data: ", "TypeError">>,
                       !.loading = FALSE]
    ELSE LET kept == [compressed EXCEPT !.l =
                         SelectSeq(compressed.l, LAMBDA link :
                             HasNode(compressed.d, link, 1)
                             /\ HasNode(compressed.d, link, 2))]
             decoded == DecodeNodes(kept, config)
             decompressedLinks == DecodeLinks(kept, decoded)
             nodeArray == CountLinks(decoded, decompressedLinks)
         IN  [state EXCEPT
                 !.nodes = nodeArray,
                 !.links = decompressedLinks,
                 !.workerFilteredNodeIds = {nodeArray[i].id : i \in 1..Len(nodeArray)},
                 !.selectedTags = state.selectedTags \cap TagsOf(nodeArray),
                 !.loading = FALSE]

\* loadGraph after both fetches: try { decode; setNodes; setLinks;
\* setWorkerFilteredNodeIds; validate the selected tags; setLoading(false) }
\* catch { setError; setLoading(false) }
loadGraph(compressed, config, state) ==
    IF DecodeThrows(compressed)
    THEN [state EXCEPT !.error = <<"Failed to load graph data: ", "TypeError">>,
                       !.loading = FALSE]
    ELSE LET decoded == DecodeNodes(compressed, config)
             decompressedLinks == DecodeLinks(compressed, decoded)
             nodeArray == CountLinks(decoded, decompressedLinks)
         IN  [state EXCEPT
                 !.nodes = nodeArray,
                 !.links = decompressedLinks,
                 !.workerFilteredNodeIds = {nodeArray[i].id : i \in 1..Len(nodeArray)},
                 !.selectedTags = state.selectedTags \cap TagsOf(nodeArray),
                 !.loading = FALSE]

\* Mutant of Memo: the index is never built again.
Memo_Stale(previous, before, after) == previous

\* useMemo(..., [nodes]): evaluated again by the render in which nodes changed
Memo(previous, before, after) ==
    IF after.nodes = before.nodes THEN previous ELSE tagIndexCache(after.nodes)

InitLoad ==
    /\ InitIdle
    /\ \E compressed \in Payloads, selectedTags \in UrlTags :
          probe = [compressed |-> compressed,
                   state |-> NewLoadState(selectedTags),
                   tagIndexCache |-> tagIndexCache(<<>>)]

CallLoadGraph ==
    /\ probe.state.loading
    /\ LET after == loadGraph(probe.compressed, SampleConfig, probe.state)
       IN  probe' = [probe EXCEPT
                        !.state = after,
                        !.tagIndexCache = Memo(probe.tagIndexCache, probe.state, after)]
    /\ UNCHANGED <<poolVars, bpVars, callerVars, appVars>>

NextLoad == CallLoadGraph

SpecLoad == InitLoad /\ [][NextLoad]_vars

-----------------------------------------------------------------------------
(* Specification SpecSize: buildNodeSizeCache called on the nodes of a       *)
(* decoded graph.json with one of the multipliers.                           *)

\* The node arrays loadGraph publishes for the payloads it can decode
SizeNodes ==
    { Decode(compressed).nodes :
        compressed \in {payload \in Payloads : ~DecodeThrows(payload)} }

\* CONFIG.nodeSizeMultiplier and other multipliers
SizeMultipliers == Multipliers \cup {"1", "2"}

InitSize ==
    /\ InitIdle
    /\ \E nodes \in SizeNodes, nodeSizeMultiplier \in SizeMultipliers :
          probe = [nodes |-> nodes, nodeSizeMultiplier |-> nodeSizeMultiplier,
                   called |-> FALSE, cache |-> <<>>]

CallBuildNodeSizeCache ==
    /\ ~probe.called
    /\ probe' = [probe EXCEPT
                    !.called = TRUE,
                    !.cache = buildNodeSizeCache(probe.nodes, probe.nodeSizeMultiplier)]
    /\ UNCHANGED <<poolVars, bpVars, callerVars, appVars>>

NextSize == CallBuildNodeSizeCache

SpecSize == InitSize /\ [][NextSize]_vars

-----------------------------------------------------------------------------
(* The encoder, src/scripts/generateGraphData.js (main, 138-198) *)

\* The entries of TAG_COLOR_MAP the model uses, in the order of Object.values
TAG_COLOR_MAP ==
    << [tag |-> "sysop", color |-> "#EC407A"],
       [tag |-> "bot", color |-> "#1E88E5"],
       [tag |-> "flood", color |-> "#1E88E5"] >>

DEFAULT_COLOR == "#eceff4"

\* TAG_COLOR_MAP[key] on a plain object: the own value, the inherited value of
\* a property of Object.prototype (a function or an object), or undefined
TagColor(key) ==
    IF \E i \in 1..Len(TAG_COLOR_MAP) : TAG_COLOR_MAP[i].tag = key
    THEN TAG_COLOR_MAP[CHOOSE i \in 1..Len(TAG_COLOR_MAP) : TAG_COLOR_MAP[i].tag = key].color
    ELSE IF key \in ObjectPrototypeKeys THEN "[inherited value]" ELSE "undefined"

\* TAG_COLOR_MAP[tags[0]] || DEFAULT_COLOR
ColorOfTags(tags) ==
    IF tags = <<>> \/ TagColor(tags[1]) = "undefined" THEN DEFAULT_COLOR
    ELSE TagColor(tags[1])

\* nodeMap.get(id)
NodeOf(nodeMap, id) == nodeMap[CHOOSE i \in 1..Len(nodeMap) : nodeMap[i].id = id]

\* connectionCountMap.get(id) || 0: one for each end of each link (101-111)
ConnectionCount(validLinks, id) ==
    Cardinality({k \in 1..Len(validLinks) : validLinks[k].source = id})
    + Cardinality({k \in 1..Len(validLinks) : validLinks[k].target = id})

\* the other end of a link that touches id
ConnectedId(link, id) == IF link.source = id THEN link.target ELSE link.source

\* the color of a node: that of its first tag, or for a node without tags that
\* of the first tag of the first tagged node it is linked with
NodeColor(nodeMap, validLinks, id) ==
    LET node == NodeOf(nodeMap, id)
        tagged == {k \in 1..Len(validLinks) :
                     /\ validLinks[k].source = id \/ validLinks[k].target = id
                     /\ NodeOf(nodeMap, ConnectedId(validLinks[k], id)).tags # <<>>}
    IN  IF node.tags = <<>> /\ tagged # {}
        THEN LET k == CHOOSE k \in tagged : \A other \in tagged : k <= other
             IN  ColorOfTags(NodeOf(nodeMap, ConnectedId(validLinks[k], id)).tags)
        ELSE ColorOfTags(node.tags)

\* Array.from(nodeMap.entries()).filter(linked).map(...)
filteredNodesOf(nodeMap, validLinks) ==
    LET linked == SelectSeq(nodeMap, LAMBDA node :
                     \E k \in 1..Len(validLinks) :
                        validLinks[k].source = node.id \/ validLinks[k].target = node.id)
    IN  [i \in 1..Len(linked) |->
            [id |-> linked[i].id, name |-> linked[i].name, tags |-> linked[i].tags,
             color |-> NodeColor(nodeMap, validLinks, linked[i].id),
             connectionCount |-> ConnectionCount(validLinks, linked[i].id)]]

\* enumColors: DEFAULT_COLOR, then every color of TAG_COLOR_MAP once
enumColors ==
    <<DEFAULT_COLOR>>
    \o SetAddAll(<<>>, [i \in 1..Len(TAG_COLOR_MAP) |-> TAG_COLOR_MAP[i].color])

\* colorToEnum has a key for the colors of TAG_COLOR_MAP only
HasEnum(color) == \E i \in 2..Len(enumColors) : enumColors[i] = color
colorToEnum(color) == (CHOOSE i \in 2..Len(enumColors) : enumColors[i] = color) - 1

\* "__proto__"
ProtoName == <<"_", "_", "p", "r", "o", "t", "o", "_", "_">>

\* nodeIdMap[id] of "__proto__" is Object.prototype, whatever was assigned;
\* JSON.stringify writes it as {}, which as an array index selects no element:
\* the model writes the index -1, which selects none either
NoElement == 0 - 1

nodeIdMap(written, id) ==
    IF id = ProtoName THEN NoElement
    ELSE (CHOOSE i \in 1..Len(written) : written[i].id = id) - 1

\* nodeData as JSON.stringify writes it: e is left out when colorToEnum has no
\* such color (undefined), t when the node has no tags, k when the count is 1
nodeData(node) ==
    [n |-> node.id]
    @@ (IF HasEnum(node.color) THEN [e |-> colorToEnum(node.color)] ELSE <<>>)
    @@ (IF node.tags # <<>> THEN [t |-> node.tags] ELSE <<>>)
    @@ (IF node.connectionCount # 1 THEN [k |-> node.connectionCount] ELSE <<>>)

\* graph.json and the e of config.json
encode(nodeMap, validLinks) ==
    LET written == filteredNodesOf(nodeMap, validLinks)
    IN  [graph |->
            [d |-> [i \in 1..Len(written) |-> nodeData(written[i])],
             l |-> [k \in 1..Len(validLinks) |->
                      << nodeIdMap(written, validLinks[k].source),
                         nodeIdMap(written, validLinks[k].target) >>]],
         config |-> [e |-> enumColors]]

-----------------------------------------------------------------------------
(* Specification SpecCodec: the script writes graph.json and config.json for *)
(* a set of pages, and the App loads them.                                   *)

\* The tag lists of a page: none, known tags, a tag without color, and a
\* property name of Object.prototype
PageTags == { <<>>, <<"sysop">>, <<"bot", "sysop">>, <<"flood">>, <<"newbie">>,
              <<"constructor">> }

\* The page names, in the order of nodeMap
PageNames == { << <<"A">>, <<"B">>, <<"C">> >>, << <<"A">>, <<"B">>, ProtoName >> }

\* The links found: the sublists of first-second, second-third, third-first
\* and first-first (linkSet keeps one link per ordered pair)
PageLinks(names) ==
    { Sublist(<< [source |-> names[1], target |-> names[2]],
                 [source |-> names[2], target |-> names[3]],
                 [source |-> names[3], target |-> names[1]],
                 [source |-> names[1], target |-> names[1]] >>, keep) :
        keep \in SUBSET (1..4) }

NodeMaps ==
    { [i \in 1..3 |-> [id |-> names[i], name |-> names[i], tags |-> tags[i]]] :
        names \in PageNames, tags \in [1..3 -> PageTags] }

InitCodec ==
    /\ InitIdle
    /\ \E nodeMap \in NodeMaps :
       \E validLinks \in PageLinks([i \in 1..3 |-> nodeMap[i].id]) :
          probe = [nodeMap |-> nodeMap, validLinks |-> validLinks,
                   written |-> FALSE,
                   graph |-> [d |-> <<>>, l |-> <<>>],
                   config |-> [e |-> <<>>],
                   state |-> NewLoadState({})]

\* main of generateGraphData.js
Generate ==
    /\ ~probe.written
    /\ LET files == encode(probe.nodeMap, probe.validLinks)
       IN  probe' = [probe EXCEPT !.written = TRUE,
                                  !.graph = files.graph,
                                  !.config = files.config]
    /\ UNCHANGED <<poolVars, bpVars, callerVars, appVars>>

\* loadGraph on the files written
LoadGenerated ==
    /\ probe.written
    /\ probe.state.loading
    /\ probe' = [probe EXCEPT !.state = loadGraph(probe.graph, probe.config, probe.state)]
    /\ UNCHANGED <<poolVars, bpVars, callerVars, appVars>>

NextCodec == Generate \/ LoadGenerated

SpecCodec == InitCodec /\ [][NextCodec]_vars

-----------------------------------------------------------------------------
(* Specification SpecNew: new WorkerPool(poolSize) on a machine with a given *)
(* navigator.hardwareConcurrency.                                            *)

\* Largest poolSize and largest hardwareConcurrency explored.
MaxUnits == 8

InitNew ==
    /\ InitIdle
    /\ \E poolSize \in 0..MaxUnits, hardwareConcurrency \in 0..MaxUnits :
          probe = [poolSize |-> poolSize, hardwareConcurrency |-> hardwareConcurrency,
                   constructed |-> FALSE]

\* constructor(poolSize): size workers are created, all idle
Construct ==
    /\ ~probe.constructed
    /\ probe' = [probe EXCEPT !.constructed = TRUE]
    /\ SetPool(NewPool(PoolSize(probe.poolSize, probe.hardwareConcurrency)))
    /\ UNCHANGED <<bpVars, callerVars, appVars>>

NextNew == Construct

SpecNew == InitNew /\ [][NextNew]_vars

-----------------------------------------------------------------------------
(* Specification SpecTimer: the BatchProcessor of SpecBatch with the timeouts *)
(* of the browser made explicit.  probe.outstanding holds the handles of the  *)
(* timeouts set and neither fired nor cleared, probe.handle the handle kept   *)
(* in this.timer (0: null), probe.last the method that ran last.             *)

\* setTimeout is called by a method exactly when it leaves this.timer set
\* where it was null (scheduleUpdate returns early otherwise)
SetTimeout(before, after, timeouts) ==
    IF ~before.timer /\ after.timer
    THEN [timeouts EXCEPT !.outstanding = @ \cup {timeouts.next},
                          !.handle = timeouts.next,
                          !.next = @ + 1]
    ELSE timeouts

\* clearTimeout(this.timer) when this.timer is set, then this.timer = null
ClearTimeout(timeouts) ==
    [timeouts EXCEPT !.outstanding = @ \ {timeouts.handle}, !.handle = 0]

InitTimer ==
    /\ NoPool
    /\ results = <<>>
    /\ pending = {}
    /\ callback = "onUpdate"
    /\ timer = FALSE
    /\ NoCallbackYet
    /\ lateRegistration = FALSE
    /\ cleared = FALSE
    /\ handlers = <<>>
    /\ raised = {}
    /\ NoApp
    /\ probe = [outstanding |-> {}, handle |-> 0, next |-> 1, last |-> "constructor"]

TimedRegister(type) ==
    /\ nextId <= MaxRegistered
    /\ SetBatcher(registerTask(Batcher, TaskId(type, nextId)))
    /\ promise' = MapSet(promise, nextId, [state |-> "pending"])
    /\ handlers' = MapSet(handlers, nextId, TaskId(type, nextId))
    /\ nextId' = nextId + 1
    /\ lateRegistration' =
          (lateRegistration \/ \E n \in DOMAIN promise : promise[n].state # "pending")
    /\ probe' = [probe EXCEPT !.last = "registerTask"]
    /\ UNCHANGED <<workers, taskQueue, taskMap, units, uncaught, callbackCount,
                   lastCallback, delivered, cleared, raised, appVars>>

TimedResolve(n) ==
    /\ promise[n].state = "pending"
    /\ promise' = [promise EXCEPT ![n] = [state |-> "fulfilled",
                                          value |-> SampleResult(handlers[n].type)]]
    /\ LET after == addResult(Batcher, handlers[n], SampleResult(handlers[n].type))
       IN  /\ SetBatcher(after)
           /\ probe' = [SetTimeout(Batcher, after, probe) EXCEPT !.last = "addResult"]
    /\ UNCHANGED <<workers, taskQueue, taskMap, units, nextId, uncaught, callbackCount,
                   lastCallback, delivered, lateRegistration, cleared, callerVars,
                   appVars>>

TimedReject(n) ==
    /\ promise[n].state = "pending"
    /\ promise' = [promise EXCEPT ![n] = [state |-> "rejected"]]
    /\ LET after == failTask(Batcher, handlers[n])
       IN  /\ SetBatcher(after)
           /\ probe' = [SetTimeout(Batcher, after, probe) EXCEPT !.last = "failTask"]
    /\ UNCHANGED <<workers, taskQueue, taskMap, units, nextId, uncaught, callbackCount,
                   lastCallback, delivered, lateRegistration, cleared, callerVars,
                   appVars>>

\* An outstanding timeout fires: executeUpdate runs
TimeoutFires(h) ==
    /\ h \in probe.outstanding
    /\ LET r == executeUpdate(Batcher)
       IN  /\ SetBatcher(r.bp)
           /\ Invoked(r, Batcher)
           /\ uncaught' = IF r.threw THEN uncaught \cup {"executeUpdate"} ELSE uncaught
           /\ probe' = [probe EXCEPT !.outstanding = @ \ {h},
                                     !.handle = IF r.bp.timer THEN @ ELSE 0,
                                     !.last = "executeUpdate"]
    /\ UNCHANGED <<workers, taskQueue, taskMap, promise, units, nextId,
                   lateRegistration, cleared, callerVars, appVars>>

TimedClear ==
    /\ timer \/ results # <<>> \/ pending # {}
    /\ SetBatcher(clear(Batcher))
    /\ probe' = [(IF timer THEN ClearTimeout(probe) ELSE [probe EXCEPT !.handle = 0])
                    EXCEPT !.last = "clear"]
    /\ cleared' = TRUE
    /\ UNCHANGED <<poolVars, callbackCount, lastCallback, delivered,
                   lateRegistration, callerVars, appVars>>

NextTimer ==
    \/ \E type \in BatchKinds : TimedRegister(type)
    \/ \E n \in DOMAIN handlers : TimedResolve(n)
    \/ \E n \in DOMAIN handlers : TimedReject(n)
    \/ \E h \in probe.outstanding : TimeoutFires(h)
    \/ TimedClear

SpecTimer == InitTimer /\ [][NextTimer]_vars

-----------------------------------------------------------------------------
(* Specification SpecLive: the pool of SpecPool, never terminated, whose     *)
(* units reply to every message (with a result or with the error their try   *)
(* block caught).  A worker thread that holds a message runs it, and the     *)
(* event loop of the main thread dispatches a message event that is queued:  *)
(* both are weakly fair.  Submissions are not: they may stop at any point.   *)

\* A unit that holds a message replies to it: its catch block posts the error
\* it caught, or its try block posts the result.
SomeUnitReplies ==
    \E w \in DOMAIN units : UnitRuns(w, "caught") \/ UnitRuns(w, "result")

SomeReplyReceived == \E w \in DOMAIN units : PoolReceives(w)

NextLive ==
    \/ \E call \in PoolCalls : AddTask(call[1], call[2])
    \/ SomeUnitReplies
    \/ SomeReplyReceived

SpecLive ==
    /\ InitPool
    /\ [][NextLive]_vars
    /\ WF_vars(SomeUnitReplies)
    /\ WF_vars(SomeReplyReceived)

-----------------------------------------------------------------------------
(* Claims *)

\* What a unit holds of unfinished work: messages not yet run and events not
\* yet received by the main thread.
InFlight(w) == Len(units[w].inbox) + Len(units[w].outbox)

\* The message posted to unit w in this step, if one was.
Posted(w) == Len(units'[w].inbox) > Len(units[w].inbox)
PostedTask(w) == taskMap'[units'[w].inbox[Len(units'[w].inbox)].taskId]

\* C1: no entry of workers is idle while the task queue is non-empty.
C1_WorkConserving ==
    taskQueue # <<>> => \A i \in 1..Len(workers) : workers[i].busy

\* C1's case: a task has completed, its unit was given the next one, and
\* work is still queued behind units that are all busy.
C1_Witness ==
    /\ taskQueue # <<>>
    /\ workers # <<>>
    /\ \A i \in 1..Len(workers) : workers[i].busy
    /\ \E id \in DOMAIN promise : promise[id].state = "fulfilled"

\* C2: a task that is dispatched has the least priority value of all the
\* tasks queued at that moment, whatever the order of submission.
C2_DispatchesMinPriority ==
    [][\A w \in DOMAIN units :
          Posted(w) =>
              \A k \in 1..Len(taskQueue') :
                  PostedTask(w).priority <= taskQueue'[k].priority]_vars

\* C2's case: a task submitted later with priority 10 is at a unit while a
\* task submitted earlier with priority 50 is still queued.
C2_Witness ==
    \E w \in DOMAIN units, k \in 1..Len(taskQueue) :
        /\ units[w].inbox # <<>>
        /\ Head(units[w].inbox).taskId > taskQueue[k].id
        /\ taskMap[Head(units[w].inbox).taskId].priority = 10
        /\ taskQueue[k].priority = 50

\* C3 as stated: once the main thread has received everything the units sent,
\* the promise of every task whose execution raised is rejected.
C3_FailureRejectsFuture ==
    (\A w \in DOMAIN units : units[w].outbox = <<>>)
        => \A id \in raised : promise[id].state = "rejected"

\* C4 as stated: terminate() rejects every promise that was pending.
C4_TerminateRejectsPending ==
    [][(workers # <<>> /\ workers' = <<>>)
          => \A id \in DOMAIN promise :
                promise[id].state = "pending" => promise'[id].state = "rejected"]_vars

\* C10: a unit holds at most one unfinished task, a unit marked idle holds
\* none, and so the unfinished dispatched tasks never outnumber the units.
C10_OneTaskPerUnit ==
    /\ \A w \in DOMAIN units : InFlight(w) <= 1
    /\ \A i \in 1..Len(workers) : ~workers[i].busy => InFlight(i) = 0
    /\ Cardinality({id \in DOMAIN promise :
           \E w \in DOMAIN units :
               \/ \E k \in 1..Len(units[w].inbox) : units[w].inbox[k].taskId = id
               \/ \E k \in 1..Len(units[w].outbox) :
                     /\ units[w].outbox[k].kind = "message"
                     /\ units[w].outbox[k].data.taskId = id})
          <= Cardinality(DOMAIN units)

\* C10's case: every unit is at work on a task, after an earlier task has
\* completed and another has failed.
C10_Witness ==
    /\ workers # <<>>
    /\ \A i \in 1..Len(workers) : workers[i].busy /\ InFlight(i) = 1
    /\ \E id \in DOMAIN promise : promise[id].state = "fulfilled"
    /\ raised # {}


\* The batch holds, under the fields of its kind, the result this task settled with.
Carries(batch, taskId, value) ==
    CASE taskId.type = "filter" ->
           /\ {"filteredNodeIds", "filteredLinkIds", "searchedNodeId"} \subseteq DOMAIN batch
           /\ batch.filteredNodeIds = Range(value.filteredNodeIds)
           /\ batch.filteredLinkIds = value.filteredLinkIds
           /\ batch.searchedNodeId = value.searchedNodeId
      [] taskId.type = "textCache" ->
           "textLineCache" \in DOMAIN batch /\ batch.textLineCache = value.textLineCache
      [] taskId.type = "nodeSize" ->
           "nodeSizeCache" \in DOMAIN batch /\ batch.nodeSizeCache = value.nodeSizeCache
      [] taskId.type = "forceParams" ->
           "forceParams" \in DOMAIN batch /\ batch.forceParams = value

\* C5 as stated: the callback is invoked only when no registered task is pending.
C5_NoPartialBatch ==
    callbackCount > 0 => lastCallback.pending = {}

\* C6 as stated: in a delivered batch no result of an earlier registered task
\* is merged over (after) the result of a later registered task of its kind.
C6_GenerationSafe ==
    callbackCount > 0 =>
        LET merged == lastCallback.merged
        IN  \A i, j \in 1..Len(merged) :
                (i < j /\ merged[i].type = merged[j].type) => merged[i].n < merged[j].n

\* C9.  The scenario: exactly three tasks, of three kinds, all registered
\* before any of them settled, none failed, each resolved with a result.
C9_Scenario ==
    /\ ~lateRegistration
    /\ ~cleared
    /\ Cardinality(DOMAIN handlers) = 3
    /\ Cardinality({handlers[n].type : n \in DOMAIN handlers}) = 3
    /\ \A n \in DOMAIN promise :
          \/ promise[n].state = "pending"
          \/ promise[n].state = "fulfilled" /\ promise[n].value # Undefined

C9_Resolved == {n \in DOMAIN promise : promise[n].state = "fulfilled"}

\* C9: with t1, t2, t3 of three kinds registered, no callback is invoked while
\* fewer than three are resolved; once the third is, the timer runs, and when
\* it has fired the callback has been invoked exactly once, with a batch that
\* carries the results of all three.
C9_ThreeTasksOneCallback ==
    C9_Scenario =>
        /\ Cardinality(C9_Resolved) < 3 => (callbackCount = 0 /\ ~timer)
        /\ Cardinality(C9_Resolved) = 3 =>
              \/ timer /\ callbackCount = 0
              \/ /\ ~timer
                 /\ callbackCount = 1
                 /\ \A n \in C9_Resolved :
                       Carries(lastCallback.batch, handlers[n], promise[n].value)

\* C9's case: the three are resolved and the one callback has been made.
C9_Witness ==
    /\ C9_Scenario
    /\ Cardinality(C9_Resolved) = 3
    /\ callbackCount = 1

\* Every task has left the pool and the processor's timer is not running.
AppQuiescent ==
    /\ taskQueue = <<>>
    /\ \A w \in DOMAIN units : InFlight(w) = 0
    /\ ~timer

\* What the latest search term and tag selection select in the loaded graph.
LatestFilter ==
    IF isFiltered(app)
    THEN processFilter(app.nodes, app.links, app.searchTerm, app.selectedTags,
                       tagIndexCache(app.nodes))
    ELSE [filteredNodeIds |-> [i \in 1..Len(app.nodes) |-> app.nodes[i].id],
          searchedNodeId |-> Null]

\* C7: once every task has settled and the timer has fired, with no task
\* having failed, the displayed node-id set and searchedNodeId are those of the
\* latest search term and tag selection.
C7_LatestFilterDisplayed ==
    (app.mounted /\ AppQuiescent /\ raised = {}) =>
        /\ app.workerFilteredNodeIds = Range(LatestFilter.filteredNodeIds)
        /\ app.workerSearchedNodeId = LatestFilter.searchedNodeId

\* C8: a task that failed in its unit does not keep the results of the tasks
\* that succeeded from being delivered: once the pool is drained and the timer
\* is not running, every result a unit produced has gone into a batch.
C8_FailureDoesNotStall ==
    (app.mounted /\ AppQuiescent) =>
        \A n \in DOMAIN promise :
            (n \notin raised /\ promise[n].state = "fulfilled")
                => handlers[n] \in delivered

-----------------------------------------------------------------------------
(* Claims about the filter function, checked under SpecFilter *)

Ids(nodes) == {nodes[i].id : i \in 1..Len(nodes)}

\* The request of the probe names no filter / names a search term
ProbeNoFilter == Trim(probe.searchTerm) = <<>> /\ probe.selectedTags = <<>>
ProbeSearching == Trim(probe.searchTerm) # <<>>

\* The node the worker's / the hook's search matches, 0 when none
WorkerMatch == FindByName(probe.nodes, Trim(probe.searchTerm))
HookMatch == FindByLowerName(probe.nodes, toLowerCase(probe.searchTerm))

\* id together with every node joined to it by a link, in either direction
Neighbourhood(links, id) ==
    {id} \cup {links[k].target : k \in {j \in 1..Len(links) : links[j].source = id}}
         \cup {links[k].source : k \in {j \in 1..Len(links) : links[j].target = id}}

\* The union of tagIndex[tag] over the selected tags
Tagged(nodes, selectedTags) ==
    {nodes[i].id : i \in {j \in 1..Len(nodes) :
                            Range(nodes[j].tags) \cap Range(selectedTags) # {}}}

WorkerGave == probe.worker # NotCalled /\ probe.worker # Thrown
HookGave == probe.hook # NotCalled
SingleGave == probe.single # NotCalled /\ probe.single # Thrown

\* C11: with a blank search term and no tags, processFilter and the hook give
\* the ids of all the nodes passed in and a null searchedNodeId.
C11_NoFilterGivesAll ==
    ProbeNoFilter =>
        /\ probe.worker # NotCalled =>
              /\ probe.worker # Thrown
              /\ Range(probe.worker.filteredNodeIds) = Ids(probe.nodes)
              /\ probe.worker.searchedNodeId = Null
        /\ HookGave =>
              /\ Ids(probe.hook.filteredNodes) = Ids(probe.nodes)
              /\ probe.hook.searchedNodeId = Null

\* C12: a search term that matches no name gives empty ids, empty link ids and
\* a null searchedNodeId whatever the tags, and on a graph that has nodes this
\* differs from what the same function gives when no filter is active.
C12_NoMatchGivesEmpty ==
    (ProbeSearching /\ WorkerMatch = 0 /\ probe.worker # NotCalled) =>
        /\ probe.worker = [filteredNodeIds |-> <<>>, filteredLinkIds |-> <<>>,
                           searchedNodeId |-> Null]
        /\ probe.nodes # <<>> =>
              probe.worker # processFilter(probe.nodes, probe.links, <<>>, <<>>,
                                           tagIndexCache(probe.nodes))

\* C13: a search term that matches node m, with no tags, gives exactly m and
\* the nodes linked to m in either direction, and searchedNodeId = m; on nodes
\* A, B, C with links A-B, B-C, the search "B" gives {A, B, C} and B.
C13_MatchGivesNeighbourhood ==
    /\ (probe.selectedTags = <<>> /\ ProbeSearching /\ WorkerMatch # 0
            /\ probe.worker # NotCalled) =>
          /\ probe.worker # Thrown
          /\ Range(probe.worker.filteredNodeIds) =
                Neighbourhood(probe.links, probe.nodes[WorkerMatch].id)
          /\ probe.worker.searchedNodeId = probe.nodes[WorkerMatch].id
    /\ (probe.selectedTags = <<>> /\ ProbeSearching /\ HookMatch # 0 /\ HookGave) =>
          /\ Ids(probe.hook.filteredNodes) =
                Neighbourhood(probe.links, probe.nodes[HookMatch].id)
          /\ probe.hook.searchedNodeId = probe.nodes[HookMatch].id
    /\ (probe.nodes = SampleNodes /\ probe.links = SampleLinks
            /\ probe.searchTerm = <<"B">> /\ probe.selectedTags = <<>>
            /\ probe.worker # NotCalled) =>
          /\ Range(probe.worker.filteredNodeIds) = {<<"A">>, <<"B">>, <<"C">>}
          /\ probe.worker.searchedNodeId = <<"B">>

\* C13's case: the example request, answered by processFilter and by the hook.
C13_Witness ==
    /\ probe.nodes = SampleNodes /\ probe.links = SampleLinks
    /\ probe.searchTerm = <<"B">> /\ probe.selectedTags = <<>>
    /\ WorkerGave /\ HookGave
    /\ Len(probe.worker.filteredNodeIds) = 3

\* C14: a matching search term with selected tags gives the searched node
\* together with those of its neighbours that carry a selected tag.
C14_SearchAndTags ==
    (probe.selectedTags # <<>> /\ ProbeSearching /\ WorkerMatch # 0
        /\ probe.worker # NotCalled) =>
        /\ probe.worker # Thrown
        /\ Range(probe.worker.filteredNodeIds) =
              (Neighbourhood(probe.links, probe.nodes[WorkerMatch].id)
                  \cap Tagged(probe.nodes, probe.selectedTags))
              \cup {probe.nodes[WorkerMatch].id}
        /\ probe.worker.searchedNodeId = probe.nodes[WorkerMatch].id

\* C15: with no search term and selected tags, processFilter gives exactly the
\* nodes that carry a selected tag, and a tag that is not in the index raises
\* no error.
C15_TagsOnly ==
    (probe.selectedTags # <<>> /\ ~ProbeSearching /\ probe.worker # NotCalled) =>
        /\ probe.worker # Thrown
        /\ Range(probe.worker.filteredNodeIds) = Tagged(probe.nodes, probe.selectedTags)

\* `${link.source}|${link.target}`
LinkId(link) == link.source \o <<"|">> \o link.target

\* C16: in every filter result, the links returned are exactly the links of
\* the request whose two endpoints are both in the returned node ids.
C16_LinksWithinNodes ==
    /\ WorkerGave =>
          /\ \A k \in 1..Len(probe.links) :
                LinkId(probe.links[k]) \in Range(probe.worker.filteredLinkIds)
                <=> /\ probe.links[k].source \in Range(probe.worker.filteredNodeIds)
                    /\ probe.links[k].target \in Range(probe.worker.filteredNodeIds)
          /\ Range(probe.worker.filteredLinkIds)
                \subseteq {LinkId(probe.links[k]) : k \in 1..Len(probe.links)}
    /\ HookGave =>
          /\ \A k \in 1..Len(probe.links) :
                probe.links[k] \in Range(probe.hook.filteredLinks)
                <=> /\ probe.links[k].source \in Ids(probe.hook.filteredNodes)
                    /\ probe.links[k].target \in Ids(probe.hook.filteredNodes)
          /\ Range(probe.hook.filteredLinks) \subseteq Range(probe.links)

\* C16's case: a result that keeps one link of the request and drops another.
C16_Witness ==
    /\ WorkerGave /\ HookGave
    /\ probe.worker.filteredLinkIds # <<>>
    /\ Len(probe.worker.filteredLinkIds) < Len(probe.links)
    /\ probe.hook.filteredLinks # <<>>
    /\ Len(probe.hook.filteredLinks) < Len(probe.links)

-----------------------------------------------------------------------------
(* Claims about the caches of a unit, checked under SpecUnit *)

\* The requests of a type that have been answered and collected
Answered(type) ==
    {k \in 1..Len(probe.replies) : probe.sent[k].type = type}

\* C17: the reply to a no-filter request is never the memo computed from an
\* earlier request that carried other nodes or links.
C17_NoFilterMemoKeyed ==
    \A k \in Answered("filter") :
        IsNoFilter(probe.sent[k]) =>
            probe.memoFrom = [nodes |-> probe.sent[k].data.nodes,
                              links |-> probe.sent[k].data.links]

\* C18: the map a textCache or nodeSize request is answered with has the node
\* ids of that request as keys and the values computed from that request's
\* nodes and multiplier, whatever the unit was asked before.
C18_CachesFollowNodes ==
    /\ \A k \in Answered("textCache") :
          /\ "result" \in DOMAIN probe.replies[k]
          /\ DOMAIN probe.replies[k].result.textLineCache = Ids(probe.sent[k].data.nodes)
          /\ probe.replies[k].result.textLineCache
                = buildTextLineCache(probe.sent[k].data.nodes)
    /\ \A k \in Answered("nodeSize") :
          /\ "result" \in DOMAIN probe.replies[k]
          /\ DOMAIN probe.replies[k].result.nodeSizeCache = Ids(probe.sent[k].data.nodes)
          /\ probe.replies[k].result.nodeSizeCache
                = buildNodeSizeCache(probe.sent[k].data.nodes,
                                     probe.sent[k].data.nodeSizeMultiplier)

\* C19: a forceParams request is answered with calculateForceParams of that
\* request's nodes, links, base strength and canvas, whatever the unit was
\* asked before.
C19_ForceParamsFresh ==
    \A k \in Answered("forceParams") :
        /\ "result" \in DOMAIN probe.replies[k]
        /\ probe.replies[k].result =
              calculateForceParams(probe.sent[k].data.filteredNodes,
                                   probe.sent[k].data.filteredLinks,
                                   probe.sent[k].data.baseConfig.centerStrength,
                                   probe.sent[k].data.canvasWidth,
                                   probe.sent[k].data.canvasHeight)

-----------------------------------------------------------------------------
(* Claim about calculateForceParams, checked under SpecForce *)

\* The filtered nodes no filtered link touches
Isolated ==
    {i \in 1..Len(probe.filteredNodes) :
        \A k \in 1..Len(probe.filteredLinks) :
            /\ probe.filteredLinks[k].source # probe.filteredNodes[i].id
            /\ probe.filteredLinks[k].target # probe.filteredNodes[i].id}

\* base * (1 + |isolated| / |filteredNodes| * 1.2) as the fraction up / down
EnhancedUp ==
    probe.base.num * (10 * Len(probe.filteredNodes) + 12 * Cardinality(Isolated))
EnhancedDown == probe.base.den * 10 * Len(probe.filteredNodes)

\* C20: with no isolated node the result is an unbounded distanceMax and the
\* base strength; otherwise distanceMax is the canvas diagonal over 6 and the
\* strength is base * (1 + |isolated| / |filteredNodes| * 1.2), at most 3.
C20_ForceParams ==
    probe.params # NotCalled =>
        IF Isolated = {}
        THEN /\ probe.params.distanceMax = Infinity
             /\ probe.params.centerStrength = probe.base
        ELSE /\ probe.params.distanceMax =
                   [sqrt |-> probe.canvas.width * probe.canvas.width
                             + probe.canvas.height * probe.canvas.height,
                    over |-> 6]
             /\ IF EnhancedUp <= 3 * EnhancedDown
                THEN probe.params.centerStrength.num * EnhancedDown
                        = EnhancedUp * probe.params.centerStrength.den
                ELSE probe.params.centerStrength.num
                        = 3 * probe.params.centerStrength.den

\* C20's case: a result with isolated nodes whose strength is capped at 3.
C20_Witness ==
    /\ probe.params # NotCalled
    /\ Isolated # {}
    /\ EnhancedUp > 3 * EnhancedDown

\* The isolated nodes of a graph, and a <= b for two fractions
IsolatedOf(graph) ==
    {i \in 1..Len(graph.nodes) :
        \A k \in 1..Len(graph.links) :
            /\ graph.links[k].source # graph.nodes[i].id
            /\ graph.links[k].target # graph.nodes[i].id}

AtMost(a, b) == a.num * b.den <= b.num * a.den

\* The isolated ratio of graph is at most that of the probe's filtered graph
\* (a graph without nodes has no isolated node: ratio 0)
IsolatedRatio(graph) ==
    IF graph.nodes = <<>> THEN [num |-> 0, den |-> 1]
    ELSE [num |-> Cardinality(IsolatedOf(graph)), den |-> Len(graph.nodes)]

RatioAtMostProbe(graph) ==
    AtMost(IsolatedRatio(graph),
           IsolatedRatio([nodes |-> probe.filteredNodes, links |-> probe.filteredLinks]))

\* The strength calculateForceParams gives for graph with the probe's base and canvas
StrengthOf(graph) ==
    calculateForceParams(graph.nodes, graph.links, probe.base, probe.canvas.width,
                         probe.canvas.height).centerStrength

\* The returned strength is at most 3 and at least the strength of every graph
\* of smaller or equal isolated ratio.
MonotoneAndCapped ==
    probe.params # NotCalled =>
        /\ AtMost(probe.params.centerStrength, Rat(3, 1))
        /\ \A graph \in Graphs :
              RatioAtMostProbe(graph) =>
                  AtMost(StrengthOf(graph), probe.params.centerStrength)

\* C21 as stated: for every base strength, the returned strength is
\* non-decreasing in the isolated ratio and never exceeds 3.
C21_MonotoneForEveryBase == MonotoneAndCapped

\* C21 amended: for a base strength between 0 and 3, the returned strength is
\* non-decreasing in the isolated ratio and never exceeds 3.
C21_MonotoneUpToThree ==
    (AtMost(Rat(0, 1), probe.base) /\ AtMost(probe.base, Rat(3, 1)))
        => MonotoneAndCapped

\* C21's case: a base of at most 3, a result for a graph with isolated nodes,
\* and a graph of smaller ratio with a strictly smaller strength.
C21_Witness ==
    /\ probe.params # NotCalled
    /\ AtMost(probe.base, Rat(3, 1))
    /\ Isolated # {}
    /\ \E graph \in Graphs :
          /\ RatioAtMostProbe(graph)
          /\ ~AtMost(probe.params.centerStrength, StrengthOf(graph))

-----------------------------------------------------------------------------
(* Claim about buildTextLineCache, checked under SpecWrap *)

RECURSIVE Concat(_)
Concat(lines) == IF lines = <<>> THEN <<>> ELSE Head(lines) \o Concat(Tail(lines))

\* C22: no line has more than 25 whole characters, the lines put end to end
\* are the name, character for character, and an empty name gives no lines.
C22_WrapReconstructs ==
    probe.called =>
        /\ \A i \in 1..Len(probe.lines) :
              Len(probe.lines[i]) >= 1 /\ Len(probe.lines[i]) <= CharLimit
        /\ Concat(probe.lines) = probe.name
        /\ probe.name = <<>> => probe.lines = <<>>

\* C22's case: a name longer than two lines that holds a character outside
\* the basic plane.
C22_Witness ==
    /\ probe.called
    /\ Len(probe.lines) >= 3
    /\ \E i \in 1..Len(probe.name) : probe.name[i] \in AstralChars

-----------------------------------------------------------------------------
(* Claims about loadGraph and tagIndexCache, checked under SpecLoad *)

Loaded == ~probe.state.loading /\ probe.state.error = Null

LinksFrom(id) == {k \in 1..Len(probe.state.links) : probe.state.links[k].source = id}
LinksTo(id) == {k \in 1..Len(probe.state.links) : probe.state.links[k].target = id}

\* C23: after a load, every node's outgoingCount is the number of links whose
\* source it is and its incomingCount the number of links whose target it is.
C23_CountsFollowDirection ==
    Loaded =>
        \A i \in 1..Len(probe.state.nodes) :
            LET node == probe.state.nodes[i]
            IN  /\ node.outgoingCount = Cardinality(LinksFrom(node.id))
                /\ node.incomingCount = Cardinality(LinksTo(node.id))

\* Some link pair of the payload holds an index that is no position of d.
BadIndex ==
    /\ "d" \in DOMAIN probe.compressed
    /\ \E k \in 1..Len(probe.compressed.l) : \E j \in 1..Len(probe.compressed.l[k]) :
          probe.compressed.l[k][j] \notin 0..(Len(probe.compressed.d) - 1)

\* C24: once loadGraph has run on a payload with a link index that is no
\* position of the node array, the error is set and nodes, links and the
\* filtered ids are still empty.
C24_BadIndexAbortsLoad ==
    (BadIndex /\ ~probe.state.loading) =>
        /\ probe.state.error # Null
        /\ probe.state.nodes = <<>>
        /\ probe.state.links = <<>>
        /\ probe.state.workerFilteredNodeIds = {}

\* C24's case: a load that ended on a payload with nodes, a link in range and
\* a link out of range.
C24_Witness ==
    /\ BadIndex
    /\ ~probe.state.loading
    /\ probe.compressed.d # <<>>
    /\ \E k \in 1..Len(probe.compressed.l) :
          /\ HasNode(probe.compressed.d, probe.compressed.l[k], 1)
          /\ HasNode(probe.compressed.d, probe.compressed.l[k], 2)

\* C27: in every state the index has a key exactly for the tags carried by
\* some node of the current node array, and a node's id is under a tag exactly
\* when the node carries the tag.
C27_TagIndexMatchesNodes ==
    /\ DOMAIN probe.tagIndexCache = TagsOf(probe.state.nodes)
    /\ \A tag \in DOMAIN probe.tagIndexCache \cup {"sysop", "bot", "nosuch"} :
       \A i \in 1..Len(probe.state.nodes) :
          (/\ tag \in DOMAIN probe.tagIndexCache
           /\ probe.state.nodes[i].id \in Range(probe.tagIndexCache[tag]))
          <=> tag \in Range(probe.state.nodes[i].tags)

\* C27's case: the node array has changed to one where a tag is carried by
\* two nodes and another node carries none.
C27_Witness ==
    /\ Loaded
    /\ \E tag \in DOMAIN probe.tagIndexCache : Len(probe.tagIndexCache[tag]) >= 2
    /\ \E i \in 1..Len(probe.state.nodes) : probe.state.nodes[i].tags = <<>>

-----------------------------------------------------------------------------
(* Claim about buildNodeSizeCache, checked under SpecSize *)

Degree(node) == node.incomingCount + node.outgoingCount

\* C26: the cached radius of every node is sqrt(max(1, incomingCount +
\* outgoingCount)) times the multiplier, so a node without links and a node
\* with one link have the same radius.
C26_RadiusFromDegree ==
    probe.called =>
        /\ \A i \in 1..Len(probe.nodes) :
              probe.cache[probe.nodes[i].id] =
                  [sqrt |-> Max(1, Degree(probe.nodes[i])),
                   times |-> probe.nodeSizeMultiplier]
        /\ \A i, j \in 1..Len(probe.nodes) :
              (Degree(probe.nodes[i]) = 0 /\ Degree(probe.nodes[j]) = 1)
                  => probe.cache[probe.nodes[i].id] = probe.cache[probe.nodes[j].id]

\* C26's case: radii built for a node without links, a node with one link and
\* a node with more.
C26_Witness ==
    /\ probe.called
    /\ \E i, j, k \in 1..Len(probe.nodes) :
          /\ Degree(probe.nodes[i]) = 0
          /\ Degree(probe.nodes[j]) = 1
          /\ Degree(probe.nodes[k]) >= 2

-----------------------------------------------------------------------------
(* Claim about the encoder and loadGraph, checked under SpecCodec *)

Encoded == filteredNodesOf(probe.nodeMap, probe.validLinks)

\* The nodes and links loaded are those the script encoded.
SameGraph ==
    /\ probe.state.error = Null
    /\ Len(probe.state.nodes) = Len(Encoded)
    /\ \A i \in 1..Len(Encoded) :
          LET node == probe.state.nodes[i]
          IN  /\ node.id = Encoded[i].id
              /\ node.name = Encoded[i].name
              /\ node.tags = Encoded[i].tags
              /\ node.color = Encoded[i].color
              /\ node.incomingCount + node.outgoingCount = Encoded[i].connectionCount
    /\ probe.state.links = probe.validLinks

\* C25: once the App has loaded the files written by the script, its nodes
\* have the ids, names, tag lists, colors and degree counts of the nodes
\* encoded, and its links are the links encoded.
C25_RoundTrip == (probe.written /\ ~probe.state.loading) => SameGraph

-----------------------------------------------------------------------------
(* Claim about the WorkerPool constructor, checked under SpecNew *)

\* navigator.hardwareConcurrency, taken to be 4 where the browser gives none
Available ==
    IF probe.hardwareConcurrency = 0 THEN DefaultConcurrency ELSE probe.hardwareConcurrency

\* The number of units of the pool
W == Len(workers)

\* C28 as stated: W is the requested size when that lies between 2 and the
\* available parallelism, W is never below 2, and W never exceeds the
\* available parallelism.
C28_WithinAvailable ==
    probe.constructed =>
        /\ (2 <= probe.poolSize /\ probe.poolSize <= Available) => W = probe.poolSize
        /\ W >= 2
        /\ W <= Available

\* C28 amended: W is the requested size when that lies between 2 and the
\* available parallelism, W is never below 2, and W exceeds the available
\* parallelism only where that is 1, and then W is 2.
C28_WithinAvailableOrTwo ==
    probe.constructed =>
        /\ (2 <= probe.poolSize /\ probe.poolSize <= Available) => W = probe.poolSize
        /\ W >= 2
        /\ Available >= 2 => W <= Available
        /\ Available < 2 => W = 2
        /\ Len(units) = W
        /\ \A i \in 1..W : ~workers[i].busy

\* C28's case: a pool constructed where the available parallelism is 1.
C28_Witness ==
    /\ probe.constructed
    /\ probe.hardwareConcurrency = 1
    /\ probe.poolSize >= 1
    /\ W > Available

-----------------------------------------------------------------------------
(* Claims about the task map of the WorkerPool, checked under SpecPool *)

\* In this step the main thread receives from unit w a message whose task id
\* is not in the task map.
ReceivedUnknown(w) ==
    /\ units[w].outbox # <<>>
    /\ units'[w].outbox = Tail(units[w].outbox)
    /\ Head(units[w].outbox).kind = "message"
    /\ Head(units[w].outbox).data.taskId \notin DOMAIN taskMap

\* C29: when a message arrives whose task id is not in the task map, also
\* after terminate(), no promise changes and no error is raised by the pool.
C29_UnknownIdDiscarded ==
    [][\A w \in DOMAIN units :
          ReceivedUnknown(w) => (promise' = promise /\ uncaught' = uncaught)]_vars

\* The task is in the queue.
Queued(id) == \E k \in 1..Len(taskQueue) : taskQueue[k].id = id

\* Unit w is busy with the task: the message is waiting in the unit, or the
\* unit's reply for it, or an error event of the unit, is on its way back.
ExecutedBy(w, id) ==
    /\ w \in 1..Len(workers)
    /\ workers[w].busy
    /\ \/ \E k \in 1..Len(units[w].inbox) : units[w].inbox[k].taskId = id
       \/ \E k \in 1..Len(units[w].outbox) :
             \/ units[w].outbox[k].kind # "message"
             \/ units[w].outbox[k].data.taskId = id

\* C30: every entry of the task map is in the queue or is being executed by
\* a busy unit.
C30_EntryQueuedOrExecuting ==
    \A id \in DOMAIN taskMap : Queued(id) \/ \E w \in DOMAIN units : ExecutedBy(w, id)

-----------------------------------------------------------------------------
(* Claims about terminate(), checked under SpecPool *)

\* The pool has been terminated (a constructed pool has at least two units).
Terminated == workers = <<>>

\* C31: the step of terminate() leaves the queue and the set of units empty
\* and the killed units without work, and from then on no step posts a task
\* to a unit, whether the task was queued before or submitted afterwards.
C31_NothingDispatchedAfterTerminate ==
    [][/\ (~Terminated /\ Terminated')
            => /\ taskQueue' = <<>>
               /\ \A w \in DOMAIN units : units'[w].inbox = <<>>
       /\ Terminated
            => /\ Terminated'
               /\ \A w \in DOMAIN units : ~Posted(w)]_vars

\* C31's case: a pool terminated while a task was queued, and given another
\* task afterwards.
C31_Witness ==
    /\ Terminated
    /\ taskQueue # <<>>
    /\ \E id \in DOMAIN promise :
          /\ promise[id].state = "pending"
          /\ id \notin DOMAIN taskMap
          /\ id < nextId - 1

-----------------------------------------------------------------------------
(* Claim about the three filter implementations, checked under SpecFilter *)

\* C32: called on the same request, processFilter, the hook and the handler
\* of filterWorker.ts give the same set of node ids and the same
\* searchedNodeId.
C32_OneMatchingPolicy ==
    (probe.worker # NotCalled /\ probe.hook # NotCalled /\ probe.single # NotCalled) =>
        /\ probe.worker # Thrown
        /\ probe.single # Thrown
        /\ Range(probe.worker.filteredNodeIds) = Ids(probe.hook.filteredNodes)
        /\ Range(probe.single.filteredNodeIds) = Ids(probe.hook.filteredNodes)
        /\ probe.worker.searchedNodeId = probe.hook.searchedNodeId
        /\ probe.single.searchedNodeId = probe.hook.searchedNodeId

-----------------------------------------------------------------------------
(* Claim about the timer of the BatchProcessor, checked under SpecTimer *)

\* At most one timeout is outstanding, and it is the one this.timer holds.
OneTimer ==
    /\ Cardinality(probe.outstanding) <= 1
    /\ timer <=> probe.handle # 0
    /\ probe.outstanding = IF timer THEN {probe.handle} ELSE {}

\* C33: at most one timeout is outstanding at any time; a timeout is set only
\* by a step that leaves the pending set empty; while one is outstanding no
\* result sets another or replaces it; and the step in which it fires, or
\* clear(), leaves none outstanding.
C33_SingleTimer ==
    [][/\ OneTimer
       /\ OneTimer'
       /\ probe'.next > probe.next => (pending' = {} /\ probe.outstanding = {})
       /\ (probe.outstanding # {} /\ probe'.outstanding # {})
             => probe'.outstanding = probe.outstanding
       /\ (probe.outstanding # {} /\ probe'.outstanding # probe.outstanding)
             => (probe'.outstanding = {} /\ ~timer')
       /\ probe'.last \in {"executeUpdate", "clear"}
             => (probe'.outstanding = {} /\ ~timer')]_vars

\* C33's case: the first timeout has fired and delivered a batch, a second one
\* is outstanding, and the three tasks have settled.
C33_Witness ==
    /\ probe.outstanding = {2}
    /\ callbackCount = 1
    /\ results # <<>>
    /\ Cardinality({n \in DOMAIN promise : promise[n].state # "pending"}) = 3

-----------------------------------------------------------------------------
(* Claims about the delivery of results, checked under SpecBatch *)

\* C34: the step that invokes the callback leaves no stored result, and none
\* of the results merged into its batch was merged into an earlier one.
C34_DeliveredOnce ==
    [][callbackCount' > callbackCount
          => /\ results' = <<>>
             /\ \A i \in 1..Len(lastCallback'.merged) :
                   lastCallback'.merged[i] \notin delivered]_vars

\* C34's case: the callback has been invoked a second time, each time with
\* the result of a task.
C34_Witness ==
    /\ callbackCount = 2
    /\ Cardinality(delivered) >= 2
    /\ lastCallback.merged # <<>>

-----------------------------------------------------------------------------
(* Claim about clear(), checked under SpecTimer *)

\* The ids of the stored results
Stored == {results[i].taskId : i \in 1..Len(results)}

\* The result of task n was stored and is neither stored nor delivered: it was
\* removed by clear().
Dropped(n) ==
    /\ promise[n].state = "fulfilled"
    /\ handlers[n] \notin Stored
    /\ handlers[n] \notin delivered

\* C40: clear() leaves no timeout outstanding, no stored result and no pending
\* task, and the callback as it was; a result removed by clear() is never
\* delivered to the callback afterwards.
C40_ClearDropsWork ==
    [][/\ probe'.last = "clear"
            => /\ probe'.outstanding = {}
               /\ ~timer'
               /\ results' = <<>>
               /\ pending' = {}
               /\ callback' = callback
               /\ callbackCount' = callbackCount
       /\ \A n \in DOMAIN handlers :
             Dropped(n) => (n \in DOMAIN handlers' /\ Dropped(n)')]_vars

\* C40's case: clear() has removed a stored result, the callback has been
\* invoked with the result of another task, and two timeouts have been set.
C40_Witness ==
    /\ cleared
    /\ callbackCount >= 1
    /\ \E n \in DOMAIN handlers : Dropped(n)
    /\ probe.next >= 3

-----------------------------------------------------------------------------
(* Claim about the progress of the pool, checked under SpecLive *)

\* Task id has been submitted and has left the queue / has a settled promise.
Dispatched(id) == id \in DOMAIN promise /\ ~Queued(id)
Settled(id) == id \in DOMAIN promise /\ promise[id].state # "pending"

\* C35: every submitted task is eventually dispatched and its promise
\* eventually settles, and from some point on the queue stays empty.
C35_EveryTaskSettles ==
    /\ \A id \in 1..MaxTasks : (id \in DOMAIN promise) ~> (Dispatched(id) /\ Settled(id))
    /\ <>[](taskQueue = <<>>)

\* C35's case: every task has been submitted, one has settled and others are
\* still queued behind busy units.
C35_Witness ==
    /\ nextId = MaxTasks + 1
    /\ Len(taskQueue) >= 1
    /\ \E id \in DOMAIN promise : Settled(id)
    /\ \A i \in 1..Len(workers) : workers[i].busy

-----------------------------------------------------------------------------
(* Claim about the force-parameter override, checked under SpecApp *)

\* C36: with no filter active, every task settled and the timer not running,
\* the force-parameter override is null.
C36_NoOverrideWithoutFilter ==
    (app.mounted /\ AppQuiescent /\ ~isFiltered(app)) => app.forceParams = NoParams

-----------------------------------------------------------------------------
(* Claim about the order of dispatch among equal priorities, checked under   *)
(* SpecPool.  Task ids are handed out in submission order.                   *)

\* Queued tasks of one priority stand in submission order.
FifoWithinPriority(q) ==
    \A i, j \in 1..Len(q) :
        (i < j /\ q[i].priority = q[j].priority) => q[i].id < q[j].id

\* C37: the queue keeps tasks of equal priority in submission order, and a
\* task that is dispatched was submitted before every task of its priority
\* that stays queued.
C37_FifoAmongEqualPriority ==
    [][/\ FifoWithinPriority(taskQueue')
       /\ \A w \in DOMAIN units :
             Posted(w) =>
                 \A k \in 1..Len(taskQueue') :
                     taskQueue'[k].priority = PostedTask(w).priority
                         => PostedTask(w).id < taskQueue'[k].id]_vars

\* C37's case: two units, tasks 3 and 4 of one priority were queued, a
\* completion has dispatched task 3 and task 4 is still queued.
C37_Witness ==
    /\ Len(workers) = 2
    /\ \E id \in {1, 2} \cap DOMAIN promise : promise[id].state = "fulfilled"
    /\ 3 \in DOMAIN taskMap
    /\ \E w \in DOMAIN units :
          /\ units[w].inbox # <<>>
          /\ Head(units[w].inbox).taskId = 3
          /\ taskQueue # <<>>
          /\ taskQueue[1].id = 4
          /\ taskQueue[1].priority = taskMap[3].priority

-----------------------------------------------------------------------------
(* Claim about the empty node list, checked under SpecForce *)

\* C38: no returned strength is a quotient by zero, and for an empty filtered
\* node list, with or without links, the result is the unbounded distanceMax
\* and the base strength.
C38_NoDivisionByZero ==
    probe.params # NotCalled =>
        /\ probe.params.centerStrength.den # 0
        /\ probe.filteredNodes = <<>> =>
              /\ probe.params.distanceMax = Infinity
              /\ probe.params.centerStrength = probe.base

\* C38's case: the function has returned for an empty node list with links.
C38_Witness ==
    /\ probe.params # NotCalled
    /\ probe.filteredNodes = <<>>
    /\ probe.filteredLinks # <<>>

-----------------------------------------------------------------------------
(* Claim about the width of the wrapped lines, checked under SpecWrap *)

\* C39: every line but the last has exactly 25 whole characters and the last
\* line has between 1 and 25, whatever characters the name holds.
C39_FixedWidthLines ==
    probe.called =>
        \A i \in 1..Len(probe.lines) :
            IF i < Len(probe.lines)
            THEN Len(probe.lines[i]) = CharLimit
            ELSE Len(probe.lines[i]) >= 1 /\ Len(probe.lines[i]) <= CharLimit

====
